---- MODULE Spec2Model ----
(***************************************************************************)
(* PG-Strom: the data store (datastore.c) and the GPU bitonic sort         *)
(* (cuda_gpusort.h).                                                       *)
(*                                                                         *)
(* Several state machines share the module:                                *)
(*   SpecSort  - gpusort_main and the kernels it launches, over a result   *)
(*               index array whose entries are slot-row positions;         *)
(*   SpecStore - one row-format and one slot-format kern_data_store, with  *)
(*               the host operations that fill and read them;              *)
(*   SpecParam - pgstrom_create_kern_parambuf over a Const/Param list;     *)
(*   SpecInit  - init_kern_data_store run over a header, twice;            *)
(*   SpecProj  - the thread blocks of gpusort_projection, interleaved;     *)
(*   SpecStep  - the workers of one gpusort_bitonic_step launch;           *)
(*   SpecReg   - creation and release of the chunks of one GpuContext.     *)
(***************************************************************************)
EXTENDS Integers, Sequences, FiniteSets, TLC

VARIABLES
    \* ---- GPU sort (cuda_gpusort.h) ----
    nitems,            \* kresults->nitems
    keys,              \* sorting key of each slot row, read by gpusort_keycomp
    results,           \* kresults->results[0 .. nitems-1]
    kerror,            \* kresults->kerror.errcode
    func_maxthreads,   \* block size reported for local / step / merge
    block_sz,          \* block_sz.x of gpusort_main
    nhalf,             \* nhalf of gpusort_main
    loop_i,            \* i of gpusort_main's outer loop
    loop_j,            \* j of gpusort_main's inner loop
    kcxt_e,            \* kcxt.e.errcode of gpusort_main
    pc,                \* position of gpusort_main
    launches,          \* kernels launched so far, in order
    \* ---- data store (datastore.c) ----
    kds,               \* header of the kern_data_store under test
    mem,               \* its body: chunk-relative offset -> byte
    overrun,           \* bytes stored past the end of the chunk, at most
    hist,              \* the tuples stored so far, by index, and by which call
    row,               \* the caller's TupleTableSlot and HeapTuple handle
    spc,               \* position of the host call in progress
    ib,                \* locals of pgstrom_data_store_insert_block
    buf,               \* pin and lock held on the source page
    op,                \* the last call that returned
    ret,               \* and what it returned
    kds_args,          \* arguments of the init_kern_data_store call under test
    \* ---- pgstrom_create_kern_parambuf (datastore.c) ----
    used_params,       \* the Const/Param list
    param_info,        \* econtext->ecxt_param_list_info
    pstr,              \* StringInfoData str: str.data[0 .. str.len-1]
    poffset,           \* kpbuf->poffset[], which lives at the head of str.data
    pindex,            \* index
    ppc,               \* position of pgstrom_create_kern_parambuf
    kpbuf,             \* the buffer it returned
    \* ---- gpusort_projection (cuda_gpusort.h) ----
    kds_in,            \* the input row chunk: nitems, claimed tags, extra sizes
    kds_slot,          \* header of the slot chunk of the sorting segment
    slot_rows,         \* slot row -> the input row whose values it received
    kresults,          \* kern_resultbuf: nitems, nrooms, results[]
    n_loaded,          \* kgpusort->n_loaded
    gkerror,           \* kgpusort->kerror.errcode
    groups,            \* per thread block: position, shared words, threads
    prun,              \* the kernel run: its number, tags and count at launch
    \* ---- one launch of gpusort_bitonic_step, worker by worker ----
    stp,               \* its arguments, the array, and what each worker touched
    \* ---- the chunks of one GpuContext (datastore.c) ----
    reg,               \* pds_list, the pgstrom_data_store objects, the files
    \* ---- one launch of gpusort_fixup_pointers (cuda_gpusort.h) ----
    fix,               \* the slot rows, the result array, the workers done
    \* ---- largest_workgroup_size (gpu_device.c) ----
    wg                 \* its arguments, the attributes read, and its outcome

sortVars == <<nitems, keys, results, kerror, func_maxthreads, block_sz, nhalf,
              loop_i, loop_j, kcxt_e, pc, launches>>

storeVars == <<kds, mem, overrun, hist, row, spc, ib, buf, op, ret>>

initVars == <<kds_args>>

paramVars == <<used_params, param_info, pstr, poffset, pindex, ppc, kpbuf>>

\* what the sort, the store and the parameter buffer leave alone
projVars == <<kds_in, kds_slot, slot_rows, kresults, n_loaded, gkerror, groups,
              prun>>

stepVars == <<stp>>
regVars == <<reg>>
fixVars == <<fix>>
wgVars == <<wg>>

sortRest == <<storeVars, initVars, paramVars, projVars, stepVars, regVars, fixVars, wgVars>>
storeRest == <<sortVars, initVars, paramVars, projVars, stepVars, regVars, fixVars, wgVars>>
paramRest == <<sortVars, storeVars, initVars, projVars, stepVars, regVars, fixVars, wgVars>>
initRest == <<sortVars, paramVars, projVars, stepVars, regVars, fixVars, wgVars,
              mem, overrun, hist, row, ib, buf, op, ret>>
projRest == <<sortVars, storeVars, initVars, paramVars, stepVars, regVars, fixVars, wgVars>>
stepRest == <<sortVars, storeVars, initVars, paramVars, projVars, regVars,
              fixVars, wgVars>>
regRest == <<sortVars, storeVars, initVars, paramVars, projVars, stepVars,
             fixVars, wgVars>>
fixRest == <<sortVars, storeVars, initVars, paramVars, projVars, stepVars,
             regVars, wgVars>>
wgRest == <<sortVars, storeVars, initVars, paramVars, projVars, stepVars,
            regVars, fixVars>>

vars == <<sortVars, storeVars, initVars, paramVars, projVars, stepVars,
          regVars, fixVars, wgVars>>

(***************************************************************************)
(* Bounds of the model                                                     *)
(***************************************************************************)
MaxItems == 5
MaxKey == 1
MaxThreads == 3
\* page size, scaled down from PostgreSQL's 8192
BLCKSZ == 16
\* line pointers on a page, at most
MaxLines == 2
\* capacity of a slot-format chunk, at most
MaxRooms == 2

(***************************************************************************)
(* Helpers                                                                 *)
(***************************************************************************)
Min(a, b) == IF a < b THEN a ELSE b

StromError_Success == "StromError_Success"
StromError_OutOfKernelArgs == "StromError_OutOfKernelArgs"
StromError_CudaRuntime == "StromError_CudaRuntime"
StromError_DataStoreNoSpace == "StromError_DataStoreNoSpace"

\* get_next_log2: N of the least 2^N that is larger than or equal to value
get_next_log2(value) ==
    IF value = 0 THEN 0
    ELSE CHOOSE n \in 0..32 : 2^n >= value /\ (n = 0 \/ 2^(n-1) < value)

\* kern_writeback_error_status: an error is stored only over a success status
kern_writeback_error_status(cur, own) ==
    IF own # StromError_Success /\ cur = StromError_Success THEN own ELSE cur

\* gpusort_keycomp: three-way comparison of the keys of two slot rows
gpusort_keycomp(k, x_index, y_index) ==
    IF k[x_index] < k[y_index] THEN -1
    ELSE IF k[x_index] > k[y_index] THEN 1
    ELSE 0

(***************************************************************************)
(* One round of compare-and-exchange between two barriers.  Every worker   *)
(* reads its two entries, then the workers that found them out of order    *)
(* write them back exchanged.                                              *)
(***************************************************************************)
ExchangeDup(arr, pairs, k) ==
    LET sw == {p \in pairs : gpusort_keycomp(k, arr[p[1]], arr[p[2]]) > 0}
    IN  [x \in DOMAIN arr |->
            IF \E p \in sw : p[1] = x
            THEN arr[(CHOOSE p \in sw : p[1] = x)[2]]
            ELSE arr[x]]

Exchange(arr, pairs, k) ==
    LET sw == {p \in pairs : gpusort_keycomp(k, arr[p[1]], arr[p[2]]) > 0}
    IN  [x \in DOMAIN arr |->
            IF \E p \in sw : p[1] = x
            THEN arr[(CHOOSE p \in sw : p[1] = x)[2]]
            ELSE IF \E p \in sw : p[2] = x
            THEN arr[(CHOOSE p \in sw : p[2] = x)[1]]
            ELSE arr[x]]

\* idx0 of a worker: (id / halfUnitSize) * unitSize + id % halfUnitSize
BitonicIdx0(id, unitSize) ==
    ((id \div (unitSize \div 2)) * unitSize) + (id % (unitSize \div 2))

\* idx1 taken to be the neighbour of idx0
BitonicIdx1Next(idx0, unitSize, reversing) == idx0 + 1

\* idx1: reversing ? ((idx0 & ~unitMask) | (~idx0 & unitMask))
\*                 : (halfUnitSize + idx0), unitSize being a power of two
BitonicIdx1(idx0, unitSize, reversing) ==
    IF reversing
    THEN (idx0 - (idx0 % unitSize)) + ((unitSize - 1) - (idx0 % unitSize))
    ELSE (unitSize \div 2) + idx0

\* the index pairs the workers 0 .. nworkers-1 touch, idx1 below limit
BitonicPairs(nworkers, unitSize, reversing, limit) ==
    {p \in {<<BitonicIdx0(id, unitSize),
              BitonicIdx1(BitonicIdx0(id, unitSize), unitSize, reversing)>> :
                id \in 0..(nworkers - 1)} : p[2] < limit}

(***************************************************************************)
(* gpusort_bitonic_local: one block sorts the partition part_id of         *)
(* 2 * get_local_size() entries in shared memory (localIdx).               *)
(***************************************************************************)
\* part_size of a block, after "if (part_base + part_size > nitems)"
PartSize(n, bsz, part_id) ==
    IF (part_id * 2 * bsz) + (2 * bsz) > n
    THEN n - (part_id * 2 * bsz)
    ELSE 2 * bsz

RECURSIVE LocalUnitLoop(_, _, _, _, _, _)
LocalUnitLoop(localIdx, k, bsz, part_size, blockSize, unitSize) ==
    IF unitSize < 2 THEN localIdx
    ELSE LocalUnitLoop(
            Exchange(localIdx,
                     BitonicPairs(bsz, unitSize, unitSize = blockSize, part_size),
                     k),
            k, bsz, part_size, blockSize, unitSize \div 2)

RECURSIVE LocalBlockLoop(_, _, _, _, _)
LocalBlockLoop(localIdx, k, bsz, part_size, blockSize) ==
    IF blockSize > part_size THEN localIdx
    ELSE LocalBlockLoop(
            LocalUnitLoop(localIdx, k, bsz, part_size, blockSize, blockSize),
            k, bsz, part_size, blockSize * 2)

\* what block part_id writes back to results[part_base + i], i < part_size
BitonicLocalBlock(res, k, n, bsz, part_id) ==
    LET part_size == PartSize(n, bsz, part_id)
        part_base == part_id * 2 * bsz
        loaded    == [i \in 0..(part_size - 1) |-> res[part_base + i]]
    IN  LocalBlockLoop(loaded, k, bsz, part_size, 2)

\* the whole launch: grid_sz blocks of bsz workers
gpusort_bitonic_local(res, k, n, bsz, grid_sz) ==
    [x \in DOMAIN res |->
        IF x \div (2 * bsz) < grid_sz
        THEN BitonicLocalBlock(res, k, n, bsz, x \div (2 * bsz))[x % (2 * bsz)]
        ELSE res[x]]

(***************************************************************************)
(* gpusort_bitonic_step: one compare-and-exchange per worker on the        *)
(* result array itself.                                                    *)
(***************************************************************************)
gpusort_bitonic_step(res, k, n, unitsz, reversing, nworkers) ==
    Exchange(res, BitonicPairs(nworkers, unitsz, reversing, n), k)

(***************************************************************************)
(* gpusort_bitonic_merge: one block merges its partition, from unit size   *)
(* 2 * get_local_size() down to 2, never reversing.                        *)
(***************************************************************************)
\* entries of localIdx[] beyond this index are not loaded
MergeLoadLimit == 2048

\* a shared-memory word that was never stored to
Uninitialized == -1

RECURSIVE MergeUnitLoop(_, _, _, _, _)
MergeUnitLoop(localIdx, k, bsz, part_size, unitSize) ==
    IF unitSize < 2 THEN localIdx
    ELSE MergeUnitLoop(
            Exchange(localIdx, BitonicPairs(bsz, unitSize, FALSE, part_size), k),
            k, bsz, part_size, unitSize \div 2)

BitonicMergeBlock(res, k, n, bsz, part_id) ==
    LET part_size == PartSize(n, bsz, part_id)
        part_base == part_id * 2 * bsz
        loaded    == [i \in 0..(part_size - 1) |->
                        IF i < MergeLoadLimit THEN res[part_base + i]
                        ELSE Uninitialized]
    IN  MergeUnitLoop(loaded, k, bsz, part_size, 2 * bsz)

gpusort_bitonic_merge(res, k, n, bsz, grid_sz) ==
    [x \in DOMAIN res |->
        IF x \div (2 * bsz) < grid_sz
        THEN BitonicMergeBlock(res, k, n, bsz, x \div (2 * bsz))[x % (2 * bsz)]
        ELSE res[x]]

(***************************************************************************)
(* gpusort_main: the control kernel.  Every launch is followed by          *)
(* cudaDeviceSynchronize(), so a launched kernel has run to completion     *)
(* before the next step of gpusort_main.                                   *)
(***************************************************************************)
\* 1 << (get_next_log2(x + 1) - 1)
Pow2Floor(x) == 2^(get_next_log2(x + 1) - 1)

\* the block size of the first kernel function alone
CommonBlockSizeFirst(mt) == Pow2Floor(mt[0])

\* __block_sz after the loop over kern_funcs[0..2]
CommonBlockSize(mt) ==
    Min(Min(Pow2Floor(mt[0]), Pow2Floor(mt[1])), Pow2Floor(mt[2]))

\* grid_sz.x of the local and the merge launch
LocalGridSize(n, bsz) == (((n + 1) \div 2) + bsz - 1) \div bsz

\* grid_sz.x * block_sz.x of a step launch
StepWorkers(n, unitsz, bsz) ==
    LET work_size == (((n + unitsz - 1) \div unitsz) * unitsz) \div 2
    IN  ((work_size + bsz - 1) \div bsz) * bsz

\* how a launch can end: cudaGetParameterBuffer() returned NULL,
\* cudaLaunchDevice() failed, cudaDeviceSynchronize() failed, or all went well
LaunchOutcomes == {"ok", "noargs", "nolaunch", "nosync"}

\* a failure that sets no error
LaunchErrorNone(o) == StromError_Success

LaunchError(o) ==
    IF o = "noargs" THEN StromError_OutOfKernelArgs ELSE StromError_CudaRuntime

\* the result array after a launch that ended as o: a kernel that was not
\* launched changed nothing; one whose synchronization failed may or may not
\* have run
AfterLaunch(o, old, new) ==
    IF o = "ok" THEN {new}
    ELSE IF o = "nosync" THEN {old, new}
    ELSE {old}

\* the data store is not part of this state machine
\* no single launch of gpusort_bitonic_step is followed worker by worker
StepParked == stp = << >>

\* no GpuContext with its chunk registry is followed
RegParked == reg = << >>

\* no launch of gpusort_fixup_pointers and no call of largest_workgroup_size
\* is followed
FixParked == fix = << >>
WgParked == wg = << >>

\* gpusort_projection is not part of this state machine
ProjParked ==
    /\ kds_in = << >>
    /\ kds_slot = << >>
    /\ slot_rows = << >>
    /\ kresults = << >>
    /\ n_loaded = 0
    /\ gkerror = StromError_Success
    /\ groups = << >>
    /\ prun = << >>

\* a kern_parambuf that was not built
NoParambuf == [length |-> 0, nparams |-> 0, poffset |-> << >>, data |-> << >>]

\* pgstrom_create_kern_parambuf is not part of this state machine
ParamParked ==
    /\ used_params = << >>
    /\ param_info = [null |-> TRUE, numParams |-> 0, params |-> << >>,
                     paramFetch |-> << >>]
    /\ pstr = << >>
    /\ poffset = << >>
    /\ pindex = 0
    /\ ppc = "parked"
    /\ kpbuf = NoParambuf

StoreParked ==
    /\ kds = << >>
    /\ mem = << >>
    /\ overrun = 0
    /\ hist = << >>
    /\ row = << >>
    /\ spc = "parked"
    /\ ib = << >>
    /\ buf = << >>
    /\ op = "none"
    /\ ret = "none"
    /\ kds_args = << >>

\* kresults->kerror at entry: clear, or (tried with all keys equal) holding an
\* error that a kernel recorded there before
EntryStatus(k) ==
    IF \A x \in DOMAIN k : k[x] = 0
    THEN {StromError_Success, StromError_DataStoreNoSpace}
    ELSE {StromError_Success}

SortInit ==
    /\ nitems \in 1..MaxItems
    /\ keys \in [0..(nitems - 1) -> 0..MaxKey]
    /\ results = [x \in 0..(nitems - 1) |-> x]
    /\ kerror \in EntryStatus(keys)
    /\ func_maxthreads \in [0..2 -> 1..MaxThreads]
    /\ block_sz = 0
    /\ nhalf = 0
    /\ loop_i = 0
    /\ loop_j = 0
    /\ kcxt_e = StromError_Success
    /\ pc = "geometry"
    /\ launches = <<>>
    /\ StoreParked
    /\ ParamParked
    /\ ProjParked
    /\ StepParked
    /\ RegParked
    /\ FixParked
    /\ WgParked

\* lines 500-524: the common block size and nhalf
MainGeometry ==
    /\ pc = "geometry"
    /\ UNCHANGED sortRest
    /\ block_sz' = CommonBlockSize(func_maxthreads)
    /\ nhalf' = Pow2Floor(nitems)
    /\ pc' = "local"
    /\ UNCHANGED <<nitems, keys, results, kerror, func_maxthreads, loop_i,
                   loop_j, kcxt_e, launches>>

\* lines 510-514: pgstrom_largest_workgroup_size() failed
MainGeometryFail ==
    /\ pc = "geometry"
    /\ UNCHANGED sortRest
    /\ kcxt_e' = StromError_CudaRuntime
    /\ pc' = "out"
    /\ UNCHANGED <<nitems, keys, results, kerror, func_maxthreads, block_sz,
                   nhalf, loop_i, loop_j, launches>>

\* lines 532-565: launch of gpusort_bitonic_local, then "i = block_sz.x"
MainLocal ==
    /\ pc = "local"
    /\ UNCHANGED sortRest
    /\ \E o \in LaunchOutcomes :
        LET grid_sz == LocalGridSize(nitems, block_sz)
            new == gpusort_bitonic_local(results, keys, nitems, block_sz, grid_sz)
        IN  /\ results' \in AfterLaunch(o, results, new)
            /\ launches' = IF o \in {"ok", "nosync"}
                           THEN Append(launches, <<"local", 0, FALSE>>)
                           ELSE launches
            /\ IF o = "ok"
               THEN /\ loop_i' = block_sz
                    /\ loop_j' = 2 * block_sz
                    /\ pc' = IF block_sz < nhalf THEN "step" ELSE "fixup"
                    /\ UNCHANGED kcxt_e
               ELSE /\ kcxt_e' = LaunchError(o)
                    /\ pc' = "out"
                    /\ UNCHANGED <<loop_i, loop_j>>
    /\ UNCHANGED <<nitems, keys, kerror, func_maxthreads, block_sz, nhalf>>

\* every step launch is taken to be a reversing one
StepReversingAlways(i, j) == TRUE

\* "reversing = ((j == 2 * i) ? true : false)"
StepReversing(i, j) == j = 2 * i

\* lines 567-615: one launch of gpusort_bitonic_step, then "j /= 2"
MainStep ==
    /\ pc = "step"
    /\ UNCHANGED sortRest
    /\ \E o \in LaunchOutcomes :
        LET unitsz == 2 * loop_j
            reversing == StepReversing(loop_i, loop_j)
            new == gpusort_bitonic_step(results, keys, nitems, unitsz, reversing,
                                        StepWorkers(nitems, unitsz, block_sz))
        IN  /\ results' \in AfterLaunch(o, results, new)
            /\ launches' = IF o \in {"ok", "nosync"}
                           THEN Append(launches, <<"step", unitsz, reversing>>)
                           ELSE launches
            /\ IF o = "ok"
               THEN /\ loop_j' = loop_j \div 2
                    /\ pc' = IF loop_j \div 2 > block_sz THEN "step" ELSE "merge"
                    /\ UNCHANGED kcxt_e
               ELSE /\ kcxt_e' = LaunchError(o)
                    /\ pc' = "out"
                    /\ UNCHANGED loop_j
    /\ UNCHANGED <<nitems, keys, kerror, func_maxthreads, block_sz, nhalf, loop_i>>

\* lines 616-653: launch of gpusort_bitonic_merge, then "i *= 2"
MainMerge ==
    /\ pc = "merge"
    /\ UNCHANGED sortRest
    /\ \E o \in LaunchOutcomes :
        LET grid_sz == LocalGridSize(nitems, block_sz)
            new == gpusort_bitonic_merge(results, keys, nitems, block_sz, grid_sz)
        IN  /\ results' \in AfterLaunch(o, results, new)
            /\ launches' = IF o \in {"ok", "nosync"}
                           THEN Append(launches, <<"merge", 0, FALSE>>)
                           ELSE launches
            /\ IF o = "ok"
               THEN /\ loop_i' = 2 * loop_i
                    /\ loop_j' = 4 * loop_i
                    /\ pc' = IF 2 * loop_i < nhalf THEN "step" ELSE "fixup"
                    /\ UNCHANGED kcxt_e
               ELSE /\ kcxt_e' = LaunchError(o)
                    /\ pc' = "out"
                    /\ UNCHANGED <<loop_i, loop_j>>
    /\ UNCHANGED <<nitems, keys, kerror, func_maxthreads, block_sz, nhalf>>

\* lines 655-703: launch of gpusort_fixup_pointers, which reads the result
\* array and leaves it as it is
MainFixup ==
    /\ pc = "fixup"
    /\ UNCHANGED sortRest
    /\ \E o \in LaunchOutcomes \cup {"nogeometry"} :
        /\ launches' = IF o \in {"ok", "nosync"}
                       THEN Append(launches, <<"fixup", 0, FALSE>>)
                       ELSE launches
        /\ kcxt_e' = IF o = "ok" THEN kcxt_e ELSE LaunchError(o)
    /\ pc' = "out"
    /\ UNCHANGED <<nitems, keys, results, kerror, func_maxthreads, block_sz,
                   nhalf, loop_i, loop_j>>

\* lines 704-705: kern_writeback_error_status(&kresults->kerror, kcxt.e)
MainOut ==
    /\ pc = "out"
    /\ UNCHANGED sortRest
    /\ kerror' = kern_writeback_error_status(kerror, kcxt_e)
    /\ pc' = "done"
    /\ UNCHANGED <<nitems, keys, results, func_maxthreads, block_sz, nhalf,
                   loop_i, loop_j, kcxt_e, launches>>

SortNext ==
    \/ MainGeometry
    \/ MainGeometryFail
    \/ MainLocal
    \/ MainStep
    \/ MainMerge
    \/ MainFixup
    \/ MainOut

SpecSort == SortInit /\ [][SortNext]_vars

(***************************************************************************)
(* Properties of the sort                                                  *)
(***************************************************************************)
Sorted(res, k) ==
    \A x, y \in DOMAIN res : x < y => gpusort_keycomp(k, res[x], res[y]) <= 0

\* C1: when gpusort_main has run to completion without error, the entries
\* [0, N) of the result array are in non-decreasing comparator order.
C1_SortedOnCompletion ==
    (pc = "done" /\ kerror = StromError_Success) => Sorted(results, keys)

\* C2: after every kernel phase the result array holds every slot-row
\* position it held before the pipeline started exactly once.
C2_Permutation ==
    /\ DOMAIN results = 0..(nitems - 1)
    /\ \A v \in 0..(nitems - 1) :
            Cardinality({x \in DOMAIN results : results[x] = v}) = 1

\* a launch of each kernel has completed and has moved an entry
C2_Witness ==
    /\ pc = "done"
    /\ kerror = StromError_Success
    /\ \E a, b, c \in 1..Len(launches) :
            /\ launches[a][1] = "local"
            /\ launches[b][1] = "step"
            /\ launches[c][1] = "merge"
    /\ \E x \in DOMAIN results : results[x] # x


(***************************************************************************)
(***************************************************************************)
(* The data store (datastore.c)                                            *)
(***************************************************************************)
(***************************************************************************)
STROMALIGN_LEN == 16
ALIGNOF_LONG == 8
MAXIMUM_ALIGNOF == 8
INT_MAX == 2147483647
\* sizeof(uint): one entry of the index array
SizeofUint == 4
\* sizeof(Datum), sizeof(bool), sizeof(Oid), sizeof(cl_ulong)
SizeofDatum == 8
SizeofBool == 1
SizeofOid == 4
SizeofUlong == 8
\* offsetof(HeapTupleHeaderData, t_bits)
OffsetofTBits == 23
\* offsetof(kern_tupitem, htup): t_len (4 bytes), t_self (6 bytes), padding
OffsetofHtup == 12
OffsetofTSelf == 4
SizeofItemPointer == 6
\* offsetof(kern_data_store, colmeta) and sizeof(kern_colmeta)
OffsetofColmeta == 40
SizeofColmeta == 8

KDS_FORMAT_ROW == "KDS_FORMAT_ROW"
KDS_FORMAT_SLOT == "KDS_FORMAT_SLOT"
NUMERICOID == "numeric"

\* TYPEALIGN(ALIGNVAL, LEN): (LEN + ALIGNVAL - 1) & ~(ALIGNVAL - 1),
\* ALIGNVAL being a power of two
TYPEALIGN(alignval, len) == ((len + alignval - 1) \div alignval) * alignval
STROMALIGN(len) == TYPEALIGN(STROMALIGN_LEN, len)
LONGALIGN(len) == TYPEALIGN(ALIGNOF_LONG, len)
MAXALIGN(len) == TYPEALIGN(MAXIMUM_ALIGNOF, len)

\* typealign_get_width: 'c', 's', 'i', 'd' -> 1, 2, 4, 8
typealign_get_width(type_align) ==
    IF type_align = "c" THEN 1
    ELSE IF type_align = "s" THEN 2
    ELSE IF type_align = "i" THEN 4
    ELSE 8

\* STROMALIGN(offsetof(kern_data_store, colmeta[ncols])): where the body,
\* and with it the index array, starts
KERN_DATA_STORE_HEAD_LENGTH(ncols) ==
    STROMALIGN(OffsetofColmeta + (SizeofColmeta * ncols))

\* bytes of the slot rows 0 .. n-1 including the header
KERN_DATA_STORE_SLOT_LENGTH(ncols, n) ==
    KERN_DATA_STORE_HEAD_LENGTH(ncols) +
    ((LONGALIGN(SizeofBool * ncols) + LONGALIGN(SizeofDatum * ncols)) * n)

(***************************************************************************)
(* init_kern_data_store                                                    *)
(***************************************************************************)
\* the loop body without the TYPEALIGN of the running offset
InitColumnUnaligned(attr, attcacheoff, internal_format) ==
    LET numeric  == internal_format /\ attr.atttypid = NUMERICOID
        attbyval == IF numeric THEN TRUE ELSE attr.attbyval
        attalign == IF numeric THEN SizeofUlong
                    ELSE typealign_get_width(attr.attalign)
        attlen   == IF numeric THEN SizeofUlong ELSE attr.attlen
        off      == IF attcacheoff > 0 /\ attlen <= 0 THEN -1 ELSE attcacheoff
    IN  << [attbyval |-> attbyval, attalign |-> attalign, attlen |-> attlen,
            attnum |-> attr.attnum, attcacheoff |-> off],
           IF off >= 0 THEN off + attlen ELSE off >>

\* one pass of the loop over tupdesc->attrs[i]; attcacheoff is the running
\* offset on entry; yields <<colmeta entry, running offset on exit>>
InitColumn(attr, attcacheoff, internal_format) ==
    LET numeric  == internal_format /\ attr.atttypid = NUMERICOID
        attbyval == IF numeric THEN TRUE ELSE attr.attbyval
        attalign == IF numeric THEN SizeofUlong
                    ELSE typealign_get_width(attr.attalign)
        attlen   == IF numeric THEN SizeofUlong ELSE attr.attlen
        off      == IF attcacheoff > 0
                    THEN (IF attlen > 0 THEN TYPEALIGN(attalign, attcacheoff)
                          ELSE -1)
                    ELSE attcacheoff
    IN  << [attbyval |-> attbyval, attalign |-> attalign, attlen |-> attlen,
            attnum |-> attr.attnum, attcacheoff |-> off],
           IF off >= 0 THEN off + attlen ELSE off >>

RECURSIVE InitColmeta(_, _, _, _, _)
InitColmeta(attrs, i, attcacheoff, internal_format, acc) ==
    IF i > Len(attrs) THEN acc
    ELSE LET c == InitColumn(attrs[i], attcacheoff, internal_format)
         IN  InitColmeta(attrs, i + 1, c[2], internal_format, Append(acc, c[1]))

init_kern_data_store(tupdesc, length, format, nrooms, internal_format) ==
    [length   |-> length,
     usage    |-> 0,
     ncols    |-> tupdesc.natts,
     nitems   |-> 0,
     nrooms   |-> nrooms,
     format   |-> format,
     tdhasoid |-> tupdesc.tdhasoid,
     tdtypeid |-> tupdesc.tdtypeid,
     tdtypmod |-> tupdesc.tdtypmod,
     colmeta  |-> InitColmeta(tupdesc.attrs, 1,
                              MAXALIGN(OffsetofTBits +
                                       (IF tupdesc.tdhasoid THEN SizeofOid ELSE 0)),
                              internal_format, <<>>)]

\* pds->kds_length of pgstrom_create_data_store_row
RowStoreLength(tupdesc, length) ==
    KERN_DATA_STORE_HEAD_LENGTH(tupdesc.natts) + STROMALIGN(length)

\* pds->kds_length of pgstrom_create_data_store_slot
SlotStoreLength(tupdesc, nrooms) ==
    KERN_DATA_STORE_HEAD_LENGTH(tupdesc.natts) +
    ((LONGALIGN(SizeofBool * tupdesc.natts) +
      LONGALIGN(SizeofDatum * tupdesc.natts)) * nrooms)

\* the kern_data_store of a chunk made by pgstrom_create_data_store_row
pgstrom_create_data_store_row(tupdesc, length) ==
    init_kern_data_store(tupdesc, RowStoreLength(tupdesc, length),
                         KDS_FORMAT_ROW, INT_MAX, FALSE)

\* the kern_data_store of a chunk made by pgstrom_create_data_store_slot
pgstrom_create_data_store_slot(tupdesc, nrooms, internal_format) ==
    init_kern_data_store(tupdesc, SlotStoreLength(tupdesc, nrooms),
                         KDS_FORMAT_SLOT, nrooms, internal_format)

(***************************************************************************)
(* Inputs of the store model                                               *)
(***************************************************************************)
Int4Attr(n) == [attbyval |-> TRUE, attalign |-> "i", attlen |-> 4,
                attnum |-> n, atttypid |-> "int4"]
Int8Attr(n) == [attbyval |-> TRUE, attalign |-> "d", attlen |-> 8,
                attnum |-> n, atttypid |-> "int8"]
NumericAttr(n) == [attbyval |-> FALSE, attalign |-> "i", attlen |-> -1,
                   attnum |-> n, atttypid |-> NUMERICOID]

\* row types of the chunks: three fixed-width columns (4, 4, 8 bytes), and a
\* row type with an OID column and a variable-width column
TupDescs ==
    { [natts |-> 3, tdhasoid |-> FALSE, tdtypeid |-> "rel_a", tdtypmod |-> -1,
       attrs |-> <<Int4Attr(1), Int4Attr(2), Int8Attr(3)>>],
      [natts |-> 2, tdhasoid |-> TRUE, tdtypeid |-> "rel_b", tdtypmod |-> -1,
       attrs |-> <<NumericAttr(1), Int4Attr(2)>>] }

\* the "length" argument of pgstrom_create_data_store_row
RowChunkLengths == {4 * STROMALIGN_LEN}

\* payload of a tuple: t_len bytes starting with the byte seed
Payload(t_len, seed) == [i \in 1..t_len |-> (seed + i) % 256]

\* tuples a caller hands to pgstrom_data_store_insert_tuple
SlotTuples ==
    { [t_len |-> 3, t_self |-> <<65538, 3>>, t_data |-> Payload(3, 16)],
      [t_len |-> 5, t_self |-> <<513, 258>>, t_data |-> Payload(5, 250)] }

(***************************************************************************)
(* Bytes                                                                   *)
(***************************************************************************)
\* a cl_uint in memory, least significant byte first
EncodeUint(v) == [i \in 1..4 |-> (v \div (256^(i - 1))) % 256]
DecodeUint(b) == b[1] + (256 * b[2]) + (65536 * b[3]) + (16777216 * b[4])

\* an ItemPointerData in memory: bi_hi, bi_lo, ip_posid, 16 bits each
EncodeUshort(v) == <<v % 256, (v \div 256) % 256>>
EncodeItemPointer(t_self) ==
    EncodeUshort(t_self[1] \div 65536) \o EncodeUshort(t_self[1] % 65536)
        \o EncodeUshort(t_self[2])
DecodeItemPointer(b) ==
    << (65536 * (b[1] + (256 * b[2]))) + (b[3] + (256 * b[4])),
       b[5] + (256 * b[6]) >>

\* MemoryContextAlloc() does not clear the chunk: a byte that nothing was
\* stored to is marked by a value that no store writes
FreshByte == 4096

\* memcpy() into the chunk at a chunk-relative offset; bytes that fall
\* outside the chunk do not land in it
WriteBytes(m, off, bytes) ==
    [a \in DOMAIN m |->
        IF a >= off /\ a < off + Len(bytes) THEN bytes[(a - off) + 1] ELSE m[a]]

\* the n bytes at a chunk-relative offset; what lies outside the chunk is
\* not the chunk's
ReadBytes(m, off, n) ==
    [i \in 1..n |-> IF (off + i) - 1 \in DOMAIN m THEN m[(off + i) - 1]
                    ELSE FreshByte]

\* number of bytes of [off, off + n) that lie at or past the end of the chunk
PastEnd(length, off, n) ==
    IF off + n > length THEN (off + n) - (IF off > length THEN off ELSE length)
    ELSE 0


Max(a, b) == IF a > b THEN a ELSE b

(***************************************************************************)
(* kern_tupitem and the index array                                        *)
(***************************************************************************)
\* KERN_DATA_STORE_BODY(kds) as a chunk-relative offset
KERN_DATA_STORE_BODY(k) == KERN_DATA_STORE_HEAD_LENGTH(k.ncols)

\* address of tup_index[i]
TupIndexOffset(k, i) == KERN_DATA_STORE_BODY(k) + (SizeofUint * i)

\* tup_index[i] = offset
StoreTupIndex(m, k, i, offset) ==
    WriteBytes(m, TupIndexOffset(k, i), EncodeUint(offset))

\* tup_index[i]
LoadTupIndex(m, k, i) == DecodeUint(ReadBytes(m, TupIndexOffset(k, i), 4))

\* tup_item->t_len = ...; tup_item->t_self = ...; memcpy(&tup_item->htup, ...)
StoreTupItem(m, offset, tuple) ==
    WriteBytes(
        WriteBytes(
            WriteBytes(m, offset, EncodeUint(tuple.t_len)),
            offset + OffsetofTSelf, EncodeItemPointer(tuple.t_self)),
        offset + OffsetofHtup, tuple.t_data)

\* KERN_DATA_STORE_VALUES(kds, i) and KERN_DATA_STORE_ISNULL(kds, i)
KERN_DATA_STORE_VALUES(k, i) ==
    KERN_DATA_STORE_BODY(k) +
    ((LONGALIGN(SizeofDatum * k.ncols) + LONGALIGN(SizeofBool * k.ncols)) * i)
KERN_DATA_STORE_ISNULL(k, i) ==
    KERN_DATA_STORE_VALUES(k, i) + LONGALIGN(SizeofDatum * k.ncols)

(***************************************************************************)
(* kern_fetch_data_store: the return value and the caller's row handle     *)
(***************************************************************************)
EmptyRow == [tts |-> "empty", t_len |-> 0, t_self |-> <<0, 0>>, t_data |-> 0,
             tts_values |-> 0, tts_isnull |-> 0]

FetchRangeOffByOne(r, k, m, row_index) ==
    IF row_index > k.nitems
    THEN [ret |-> "false", row |-> r]
    ELSE [ret |-> "true", row |-> [r EXCEPT !.tts = "heap"]]

kern_fetch_data_store(r, k, m, row_index) ==
    IF row_index >= k.nitems
    THEN [ret |-> "false", row |-> r]
    ELSE IF k.format = KDS_FORMAT_ROW
    THEN LET tup_item == LoadTupIndex(m, k, row_index)
         IN  [ret |-> "true",
              row |-> [tts        |-> "heap",
                       t_len      |-> DecodeUint(ReadBytes(m, tup_item, 4)),
                       t_self     |-> DecodeItemPointer(
                                         ReadBytes(m, tup_item + OffsetofTSelf,
                                                   SizeofItemPointer)),
                       t_data     |-> tup_item + OffsetofHtup,
                       tts_values |-> r.tts_values,
                       tts_isnull |-> r.tts_isnull]]
    ELSE IF k.format = KDS_FORMAT_SLOT
    THEN [ret |-> "true",
          row |-> [tts        |-> "virtual",
                   t_len      |-> r.t_len,
                   t_self     |-> r.t_self,
                   t_data     |-> r.t_data,
                   tts_values |-> KERN_DATA_STORE_VALUES(k, row_index),
                   tts_isnull |-> KERN_DATA_STORE_ISNULL(k, row_index)]]
    ELSE [ret |-> "error", row |-> r]

\* the tuple a fetched row handle designates: its length, its identity and
\* the t_len bytes its t_data points at
FetchedTuple(r, m) ==
    [t_len |-> r.t_len, t_self |-> r.t_self,
     t_data |-> ReadBytes(m, r.t_data, r.t_len)]

(***************************************************************************)
(* pgstrom_data_store_insert_tuple                                         *)
(***************************************************************************)
\* LONGALIGN(offsetof(kern_tupitem, htup) + tuple->t_len)
TupItemSizeUnaligned(t_len) == OffsetofHtup + t_len

TupItemSize(t_len) == LONGALIGN(OffsetofHtup + t_len)

\* "consume": the index array with one more entry, the usage, the new item
InsertTupleConsumeNoIndex(k, t_len) ==
    TupIndexOffset(k, k.nitems) + k.usage + TupItemSize(t_len)

InsertTupleConsume(k, t_len) ==
    TupIndexOffset(k, k.nitems + 1) + k.usage + TupItemSize(t_len)

\* the chunk after a tuple was put
InsertTuplePutNoCount(k, m, tuple) ==
    LET usage == k.usage + TupItemSize(tuple.t_len)
        tup_item == k.length - usage
    IN  [kds |-> [k EXCEPT !.usage = usage],
         mem |-> StoreTupIndex(StoreTupItem(m, tup_item, tuple),
                               k, k.nitems, tup_item)]

InsertTuplePutShort(k, m, tuple) ==
    LET usage == k.usage + LONGALIGN(tuple.t_len)
        tup_item == k.length - usage
    IN  [kds |-> [k EXCEPT !.usage = usage, !.nitems = k.nitems + 1],
         mem |-> StoreTupIndex(StoreTupItem(m, tup_item, tuple),
                               k, k.nitems, tup_item)]

InsertTuplePut(k, m, tuple) ==
    LET usage == k.usage + TupItemSize(tuple.t_len)
        tup_item == k.length - usage
    IN  [kds |-> [k EXCEPT !.usage = usage, !.nitems = k.nitems + 1],
         mem |-> StoreTupIndex(StoreTupItem(m, tup_item, tuple),
                               k, k.nitems, tup_item)]

InsertTupleRoomsOffByOne(k, m, tuple) ==
    IF k.nitems > k.nrooms
    THEN [ret |-> "false", kds |-> k, mem |-> m]
    ELSE IF k.format # KDS_FORMAT_ROW
    THEN [ret |-> "error", kds |-> k, mem |-> m]
    ELSE IF InsertTupleConsume(k, tuple.t_len) > k.length
    THEN [ret |-> "false", kds |-> k, mem |-> m]
    ELSE [ret |-> "true"] @@ InsertTuplePut(k, m, tuple)

pgstrom_data_store_insert_tuple(k, m, tuple) ==
    IF k.nitems >= k.nrooms
    THEN [ret |-> "false", kds |-> k, mem |-> m]
    ELSE IF k.format # KDS_FORMAT_ROW
    THEN [ret |-> "error", kds |-> k, mem |-> m]
    ELSE IF InsertTupleConsume(k, tuple.t_len) > k.length
    THEN [ret |-> "false", kds |-> k, mem |-> m]
    ELSE [ret |-> "true"] @@ InsertTuplePut(k, m, tuple)


(***************************************************************************)
(* pgstrom_data_store_insert_block                                         *)
(***************************************************************************)
\* what an ItemId of the source page can be: a normal item that the
\* snapshot sees, a normal item that it does not see, a dead one
LinePointers ==
    { [lp_flags |-> "LP_NORMAL", lp_len |-> 5, visible |-> TRUE],
      [lp_flags |-> "LP_NORMAL", lp_len |-> 8, visible |-> FALSE],
      [lp_flags |-> "LP_DEAD",   lp_len |-> 0, visible |-> FALSE] }

BlockNumbers == {65539}

ItemIdIsNormal(lpp) == lpp.lp_flags = "LP_NORMAL"

\* the HeapTupleData "tup" set up for the line pointer lpp at lineoff
PageTuple(blknum, lpp, lineoff) ==
    [t_len  |-> lpp.lp_len,
     t_self |-> <<blknum, lineoff>>,
     t_data |-> Payload(lpp.lp_len, (32 * lineoff) + (blknum % 7))]

\* max_consume of the pre-check
InsertBlockMaxConsumeNoUsage(k, lines) ==
    KERN_DATA_STORE_HEAD_LENGTH(k.ncols) +
    (SizeofUint * (k.nitems + lines)) + (OffsetofHtup * lines) + BLCKSZ

InsertBlockMaxConsume(k, lines) ==
    KERN_DATA_STORE_HEAD_LENGTH(k.ncols) +
    (SizeofUint * (k.nitems + lines)) + (OffsetofHtup * lines) + BLCKSZ +
    k.usage

\* "valid" of a normal item
InsertBlockValidAlways(all_visible, lpp) == TRUE

InsertBlockValid(all_visible, lpp) ==
    IF all_visible THEN TRUE ELSE lpp.visible

\* "put tuple": lines 622-630, with ntup tuples of this page already put
\* the index entry is stored at tup_index[ntup] counted from the body
InsertBlockPutFromZero(k, m, ntup, tup) ==
    LET usage == k.usage + LONGALIGN(tup.t_len)
        tup_item == k.length - usage
    IN  [kds |-> [k EXCEPT !.usage = usage],
         mem |-> StoreTupItem(StoreTupIndex(m, k, ntup, tup_item),
                              tup_item, tup)]

InsertBlockPut(k, m, ntup, tup) ==
    LET usage == k.usage + LONGALIGN(tup.t_len)
        tup_item == k.length - usage
    IN  [kds |-> [k EXCEPT !.usage = usage],
         mem |-> StoreTupItem(StoreTupIndex(m, k, k.nitems + ntup, tup_item),
                              tup_item, tup)]

(***************************************************************************)
(* The store state machine: one chunk, one host backend calling into it    *)
(***************************************************************************)
\* locals of insert_block: blknum, lines, snapshot->takenDuringRecovery,
\* all_visible, lineoff, ntup; and of the page that is being scanned, the
\* bytes its items took so far and how many of its slots held a normal item
\* that the snapshot sees or that an all-visible page vouches for
NoBlock == [blknum |-> 0, lines |-> 0, takenDuringRecovery |-> FALSE,
            all_visible |-> FALSE, lineoff |-> 0, ntup |-> 0,
            page_bytes |-> 0, page_live |-> 0]
NoBuffer == [pins |-> 0, locked |-> FALSE, unlocks |-> 0, unpins |-> 0]

\* UnlockReleaseBuffer(buffer): the content lock and the pin are given up;
\* unlocks and unpins count the releases of the call in progress
UnlockReleaseBuffer(b) ==
    [pins |-> b.pins - 1, locked |-> FALSE,
     unlocks |-> b.unlocks + 1, unpins |-> b.unpins + 1]

\* the sentinel path returning with the buffer as it is
InsertBlockBailKeep(b) == b

\* lines 582-586: the buffer on the sentinel path
InsertBlockBail(b) == UnlockReleaseBuffer(b)

\* the sort is not part of this state machine
SortParked ==
    /\ nitems = 0
    /\ keys = << >>
    /\ results = << >>
    /\ kerror = StromError_Success
    /\ func_maxthreads = << >>
    /\ block_sz = 0
    /\ nhalf = 0
    /\ loop_i = 0
    /\ loop_j = 0
    /\ kcxt_e = StromError_Success
    /\ pc = "parked"
    /\ launches = << >>

\* the chunk right after pgstrom_create_data_store_row / _slot (heap backed)
StoreInit ==
    /\ \E tupdesc \in TupDescs :
        \/ \E length \in RowChunkLengths :
              kds = pgstrom_create_data_store_row(tupdesc, length)
        \/ \E nrooms \in 0..MaxRooms, internal_format \in BOOLEAN :
              kds = pgstrom_create_data_store_slot(tupdesc, nrooms,
                                                   internal_format)
    /\ mem = [a \in KERN_DATA_STORE_BODY(kds)..(kds.length - 1) |-> FreshByte]
    /\ overrun = 0
    /\ hist = << >>
    /\ row = EmptyRow
    /\ spc = "idle"
    /\ ib = NoBlock
    /\ buf = NoBuffer
    /\ op = "none"
    /\ ret = "none"
    /\ kds_args = << >>
    /\ SortParked
    /\ ParamParked
    /\ ProjParked
    /\ StepParked
    /\ RegParked
    /\ FixParked
    /\ WgParked

\* pgstrom_data_store_insert_tuple(pds, slot), the slot holding tuple
InsertTupleOf(tuple) ==
    /\ spc = "idle"
    /\ LET r == pgstrom_data_store_insert_tuple(kds, mem, tuple)
       IN  /\ kds' = r.kds
           /\ mem' = r.mem
           /\ hist' = IF r.ret = "true"
                      THEN Append(hist, [t |-> tuple, by |-> "tuple"])
                      ELSE hist
           /\ ret' = r.ret
    /\ op' = "insert_tuple"
    /\ UNCHANGED <<overrun, row, spc, ib, buf>>
    /\ UNCHANGED storeRest

InsertTuple == \E tuple \in SlotTuples : InsertTupleOf(tuple)

\* kern_fetch_data_store(slot, kds, row_index, tuple)
FetchRowOf(row_index) ==
    /\ spc = "idle"
    /\ LET r == kern_fetch_data_store(row, kds, mem, row_index)
       IN  /\ row' = r.row
           /\ ret' = r.ret
    /\ op' = "fetch"
    /\ UNCHANGED <<kds, mem, overrun, hist, spc, ib, buf>>
    /\ UNCHANGED storeRest

FetchRow == \E row_index \in 0..(kds.nitems + 1) : FetchRowOf(row_index)

\* gpusort_projection, lines 138-151, as the host sees its outcome on the
\* slot chunk's header: one group obtained room for n more rows
ProjectionLoad ==
    /\ spc = "idle"
    /\ kds.format = KDS_FORMAT_SLOT
    /\ \E n \in 1..MaxRooms :
        /\ ~ (KERN_DATA_STORE_SLOT_LENGTH(kds.ncols, kds.nitems + n) + kds.usage
                > kds.length)
        /\ kds' = [kds EXCEPT !.nitems = kds.nitems + n]
    /\ op' = "projection"
    /\ ret' = "none"
    /\ UNCHANGED <<mem, overrun, hist, row, spc, ib, buf>>
    /\ UNCHANGED storeRest

\* lines 551-563: ReadBuffer() pins the page; heap_page_prune_opt() may
\* clean the page up, which is before the page is looked at
InsertBlockRead ==
    /\ spc = "idle"
    /\ kds.format = KDS_FORMAT_ROW
    /\ \E blknum \in BlockNumbers, page_prune \in BOOLEAN,
          recovery \in BOOLEAN :
        ib' = [NoBlock EXCEPT !.blknum = blknum,
                              !.takenDuringRecovery = recovery]
    /\ buf' = [pins |-> buf.pins + 1, locked |-> FALSE, unlocks |-> 0,
               unpins |-> 0]
    /\ spc' = "ib_pinned"
    /\ UNCHANGED <<kds, mem, overrun, hist, row, op, ret>>
    /\ UNCHANGED storeRest

\* lines 566-569: LockBuffer(BUFFER_LOCK_SHARE), then
\* "lines = PageGetMaxOffsetNumber(page)" and "ntup = 0"
InsertBlockLock ==
    /\ spc = "ib_pinned"
    /\ \E lines \in 0..MaxLines :
        ib' = [ib EXCEPT !.lines = lines, !.ntup = 0]
    /\ buf' = [buf EXCEPT !.locked = TRUE]
    /\ spc' = "ib_check"
    /\ UNCHANGED <<kds, mem, overrun, hist, row, op, ret>>
    /\ UNCHANGED storeRest

\* lines 577-586: the block is hopeless, UnlockReleaseBuffer(), "return -1"
InsertBlockNoRoom ==
    /\ spc = "ib_check"
    /\ InsertBlockMaxConsume(kds, ib.lines) > kds.length
    /\ buf' = InsertBlockBail(buf)
    /\ ib' = NoBlock
    /\ op' = "insert_block"
    /\ ret' = -1
    /\ spc' = "idle"
    /\ UNCHANGED <<kds, mem, overrun, hist, row>>
    /\ UNCHANGED storeRest

\* lines 591-598: all_visible, and the scan starts at FirstOffsetNumber
InsertBlockStart ==
    /\ spc = "ib_check"
    /\ ~ (InsertBlockMaxConsume(kds, ib.lines) > kds.length)
    /\ \E page_all_visible \in BOOLEAN :
        ib' = [ib EXCEPT
                 !.all_visible = page_all_visible /\ ~ ib.takenDuringRecovery,
                 !.lineoff = 1]
    /\ spc' = "ib_scan"
    /\ UNCHANGED <<kds, mem, overrun, hist, row, buf, op, ret>>
    /\ UNCHANGED storeRest

\* lines 598-631: one pass of the loop, over the line pointer lpp; the items
\* of a page take no more than one block
InsertBlockLine ==
    /\ spc = "ib_scan"
    /\ ib.lineoff <= ib.lines
    /\ \E lpp \in LinePointers :
        LET tup == PageTuple(ib.blknum, lpp, ib.lineoff)
            put == InsertBlockPut(kds, mem, ib.ntup, tup)
            live == IF ItemIdIsNormal(lpp) /\ (lpp.visible \/ ib.all_visible)
                    THEN 1 ELSE 0
        IN  /\ ib.page_bytes + MAXALIGN(lpp.lp_len) <= BLCKSZ
            /\ IF ItemIdIsNormal(lpp) /\ InsertBlockValid(ib.all_visible, lpp)
               THEN /\ kds' = put.kds
                    /\ mem' = put.mem
                    /\ overrun' = Max(overrun,
                                      PastEnd(kds.length,
                                              put.kds.length - put.kds.usage,
                                              OffsetofHtup + tup.t_len))
                    /\ hist' = Append(hist, [t |-> tup, by |-> "block"])
                    /\ ib' = [ib EXCEPT
                                !.lineoff = ib.lineoff + 1,
                                !.ntup = ib.ntup + 1,
                                !.page_bytes = ib.page_bytes + MAXALIGN(lpp.lp_len),
                                !.page_live = ib.page_live + live]
               ELSE /\ ib' = [ib EXCEPT
                                !.lineoff = ib.lineoff + 1,
                                !.page_bytes = ib.page_bytes + MAXALIGN(lpp.lp_len),
                                !.page_live = ib.page_live + live]
                    /\ UNCHANGED <<kds, mem, overrun, hist>>
    /\ UNCHANGED <<row, spc, buf, op, ret>>
    /\ UNCHANGED storeRest

\* line 632: the loop is over, UnlockReleaseBuffer()
InsertBlockUnlock ==
    /\ spc = "ib_scan"
    /\ ib.lineoff > ib.lines
    /\ buf' = UnlockReleaseBuffer(buf)
    /\ spc' = "ib_count"
    /\ UNCHANGED <<kds, mem, overrun, hist, row, ib, op, ret>>
    /\ UNCHANGED storeRest

\* lines 633-637: "kds->nitems += ntup", "return ntup"
InsertBlockEnd ==
    /\ spc = "ib_count"
    /\ UNCHANGED buf
    /\ kds' = [kds EXCEPT !.nitems = kds.nitems + ib.ntup]
    /\ ib' = NoBlock
    /\ op' = "insert_block"
    /\ ret' = ib.ntup
    /\ spc' = "idle"
    /\ UNCHANGED <<mem, overrun, hist, row>>
    /\ UNCHANGED storeRest

StoreNext ==
    \/ InsertTuple
    \/ FetchRow
    \/ ProjectionLoad
    \/ InsertBlockRead
    \/ InsertBlockLock
    \/ InsertBlockNoRoom
    \/ InsertBlockStart
    \/ InsertBlockLine
    \/ InsertBlockUnlock
    \/ InsertBlockEnd

SpecStore == StoreInit /\ [][StoreNext]_vars

(***************************************************************************)
(* Properties of the data store                                            *)
(***************************************************************************)
AllByTuple(h) == \A j \in 1..Len(h) : h[j].by = "tuple"

\* C3: a row-format chunk, after initialization and after any sequence of
\* insert_tuple and insert_block calls, successful or failing, has
\* nitems <= nrooms and header size + 4 * nitems + usage <= length.
C3_RowChunkBounds ==
    kds.format = KDS_FORMAT_ROW =>
        /\ kds.nitems <= kds.nrooms
        /\ KERN_DATA_STORE_HEAD_LENGTH(kds.ncols) + (4 * kds.nitems) + kds.usage
              <= kds.length

\* a row chunk that took tuples both ways and then refused one
C3_Witness ==
    /\ kds.format = KDS_FORMAT_ROW
    /\ spc = "idle"
    /\ \E i, j \in 1..Len(hist) : hist[i].by = "tuple" /\ hist[j].by = "block"
    /\ op = "insert_tuple"
    /\ ret = "false"

\* C4: on a row-format chunk, the tuple t that insert_tuple stored as item k
\* is what kern_fetch_data_store returns for index k (true, with the length,
\* the identity and the payload bytes of t), immediately and after any
\* number of later successful insert_tuple calls.
C4_RoundTrip ==
    \A k \in 1..Len(hist) :
        (kds.format = KDS_FORMAT_ROW /\ \A j \in k..Len(hist) : hist[j].by = "tuple")
        => LET r == kern_fetch_data_store(row, kds, mem, k - 1)
           IN  /\ r.ret = "true"
               /\ FetchedTuple(r.row, mem) = hist[k].t

\* item 0 was fetched back after other tuples went in
C4_Witness ==
    /\ Len(hist) >= 2
    /\ AllByTuple(hist)
    /\ hist[1].t # hist[Len(hist)].t
    /\ op = "fetch"
    /\ ret = "true"
    /\ FetchedTuple(row, mem) = hist[1].t

\* C5: insert_tuple on a chunk with nitems = nrooms returns false and leaves
\* usage, nitems, the index array and the payload region unchanged.
C5_FullChunkRejects ==
    [][ (op' = "insert_tuple" /\ InsertTuple /\ kds.nitems = kds.nrooms)
        => /\ ret' = "false"
           /\ kds'.usage = kds.usage
           /\ kds'.nitems = kds.nitems
           /\ mem' = mem ]_vars

\* a chunk with rooms, all of them taken, refused a tuple
C5_Witness ==
    /\ kds.nrooms > 0
    /\ kds.nitems = kds.nrooms
    /\ op = "insert_tuple"
    /\ ret = "false"

\* C6: on a row chunk whose rooms are not exhausted, insert_tuple returns
\* false, without an error and without changing usage, nitems or any stored
\* byte, exactly when (end of the index array with one more entry) + usage +
\* aligned(item header + tuple length) > length; otherwise it returns true,
\* usage grows by the aligned item size and nitems by 1.
C6_SpaceCheck ==
    [][ \A tuple \in SlotTuples :
          (/\ op' = "insert_tuple"
           /\ InsertTupleOf(tuple)
           /\ kds.format = KDS_FORMAT_ROW
           /\ kds.nitems < kds.nrooms)
          => LET item == LONGALIGN(OffsetofHtup + tuple.t_len)
                 need == (KERN_DATA_STORE_HEAD_LENGTH(kds.ncols)
                             + (4 * (kds.nitems + 1))) + kds.usage + item
             IN  IF need > kds.length
                 THEN ret' = "false" /\ kds' = kds /\ mem' = mem
                 ELSE /\ ret' = "true"
                      /\ kds'.usage = kds.usage + item
                      /\ kds'.nitems = kds.nitems + 1 ]_vars

\* a row chunk with items in it and rooms left refused a tuple for space
C6_Witness ==
    /\ kds.format = KDS_FORMAT_ROW
    /\ kds.nitems >= 2
    /\ kds.nitems < kds.nrooms
    /\ AllByTuple(hist)
    /\ op = "insert_tuple"
    /\ ret = "false"

\* C7: when the worst case of insert_block (header + one index entry per
\* existing item and per page slot + one item header per page slot + one
\* page + usage) exceeds the chunk length, the call returns -1 and usage,
\* nitems, the index array and the payload region are what they were before
\* the call.
C7_PreCheckLeavesChunk ==
    [][ /\ ((spc = "idle" /\ spc' = "ib_pinned") \/ spc = "ib_pinned")
            => (kds' = kds /\ mem' = mem)
        /\ LET worst == KERN_DATA_STORE_HEAD_LENGTH(kds.ncols)
                          + (4 * (kds.nitems + ib.lines))
                          + (OffsetofHtup * ib.lines) + BLCKSZ + kds.usage
           IN  (spc = "ib_check" /\ worst > kds.length)
               => /\ spc' = "idle"
                  /\ op' = "insert_block"
                  /\ ret' = -1
                  /\ kds' = kds
                  /\ mem' = mem ]_vars

\* a chunk that holds items turned a page down
C7_Witness ==
    /\ spc = "idle"
    /\ kds.nitems >= 1
    /\ op = "insert_block"
    /\ ret = -1

\* C8: kern_fetch_data_store with row_index >= nitems returns false and
\* changes neither the chunk nor the caller's row handle, on ROW and on SLOT
\* chunks; with row_index < nitems on a ROW or SLOT chunk it returns true.
C8_FetchRange ==
    [][ \A row_index \in 0..(kds.nitems + 1) :
          (op' = "fetch" /\ FetchRowOf(row_index))
          => IF row_index >= kds.nitems
             THEN ret' = "false" /\ row' = row /\ kds' = kds /\ mem' = mem
             ELSE kds.format \in {KDS_FORMAT_ROW, KDS_FORMAT_SLOT}
                     => ret' = "true" ]_vars

\* a SLOT chunk: a row was fetched, then an index out of range was asked
\* for and the handle still designates the row
C8_Witness ==
    /\ kds.format = KDS_FORMAT_SLOT
    /\ kds.nitems >= 1
    /\ op = "fetch"
    /\ ret = "false"
    /\ row.tts = "virtual"

\* C9: over successful insert_tuple calls on one row chunk, the k-th
\* successful insert (0-based) becomes index entry k, usage grows strictly
\* with each insert, and the offsets in the index array are strictly
\* decreasing in k.
C9_InsertOrder ==
    [][ \A tuple \in SlotTuples :
          (/\ op' = "insert_tuple"
           /\ InsertTupleOf(tuple)
           /\ ret' = "true"
           /\ AllByTuple(hist))
          => LET k == Len(hist)
                 r == kern_fetch_data_store(row, kds', mem', k)
             IN  /\ kds'.nitems = k + 1
                 /\ kds'.usage > kds.usage
                 /\ kds'.length - kds'.usage < kds.length - kds.usage
                 /\ r.ret = "true"
                 /\ FetchedTuple(r.row, mem') = tuple
                 /\ \A i \in 0..(k - 1) :
                        LoadTupIndex(mem', kds', i) = LoadTupIndex(mem, kds, i)
                 /\ \A i, j \in 0..k :
                        i < j => LoadTupIndex(mem', kds', i)
                                    > LoadTupIndex(mem', kds', j) ]_vars

\* the third tuple in a row went in
C9_Witness ==
    /\ kds.format = KDS_FORMAT_ROW
    /\ Len(hist) = 3
    /\ AllByTuple(hist)
    /\ kds.nitems = 3
    /\ op = "insert_tuple"
    /\ ret = "true"

\* C10: when insert_block does not return -1, what it returns is the
\* increase of nitems and the number of page slots that hold a normal item
\* and are visible (every normal slot when the page is all-visible and the
\* snapshot was not taken during recovery); the new index entries follow the
\* slot order of the page.
C10_BlockCount ==
    [][ /\ (spc = "ib_scan" /\ hist' # hist)
            => LET e == kds.nitems + ib.ntup
               IN  /\ Len(hist) = e
                   /\ hist'[e + 1].by = "block"
                   /\ hist'[e + 1].t.t_self = <<ib.blknum, ib.lineoff>>
                   /\ LoadTupIndex(mem', kds', e) = kds'.length - kds'.usage
                   /\ \A i \in 0..(e - 1) :
                        LoadTupIndex(mem', kds', i) = LoadTupIndex(mem, kds, i)
        /\ (spc = "ib_count" /\ spc' = "idle")
            => /\ op' = "insert_block"
               /\ ret' # -1
               /\ ret' = kds'.nitems - kds.nitems
               /\ ret' = ib.page_live
               /\ Len(hist) = kds'.nitems
               /\ \A i, j \in (kds.nitems + 1)..kds'.nitems :
                    i < j => /\ hist[i].t.t_self[2] < hist[j].t.t_self[2]
                             /\ LoadTupIndex(mem', kds', i - 1)
                                   > LoadTupIndex(mem', kds', j - 1) ]_vars

\* a page whose first slot was passed over and whose second was taken
C10_Witness ==
    /\ spc = "idle"
    /\ op = "insert_block"
    /\ ret = 1
    /\ Len(hist) >= 2
    /\ hist[Len(hist)].by = "block"
    /\ hist[Len(hist)].t.t_self[2] = 2

(***************************************************************************)
(* C24: pgstrom_data_store_insert_block holds the shared lock of the page  *)
(* only while it scans the line pointers; when it decides whether the page *)
(* fits into the chunk, no page lock is held.                              *)
(***************************************************************************)
C24_LockOnlyDuringScan == buf.locked => spc = "ib_scan"

\* the bytes of tup_index[0 .. n-1]
TupIndexBytes(m, k, n) == ReadBytes(m, KERN_DATA_STORE_BODY(k), SizeofUint * n)

(***************************************************************************)
(* C28: during pgstrom_data_store_insert_block nitems keeps the value it   *)
(* had at the call for the whole scan; it is increased once, by the number *)
(* of tuples stored, after the page lock was released; every index entry   *)
(* the scan writes is at a position at or above that value and the entries *)
(* below it stay as they are.                                              *)
(***************************************************************************)
C28_CountOnceAfterScan ==
    [][ /\ spc \in {"ib_pinned", "ib_check", "ib_scan"}
            => kds'.nitems = kds.nitems
        /\ (spc = "ib_scan" /\ hist' # hist)
            => /\ TupIndexBytes(mem', kds, kds.nitems)
                     = TupIndexBytes(mem, kds, kds.nitems)
               /\ LoadTupIndex(mem', kds, kds.nitems + ib.ntup)
                     = kds'.length - kds'.usage
               /\ ib'.ntup = ib.ntup + 1
               /\ Len(hist') = kds.nitems + ib'.ntup
        /\ spc = "ib_count"
            => /\ ~ buf.locked
               /\ spc' = "idle"
               /\ op' = "insert_block"
               /\ kds'.nitems = kds.nitems + ib.ntup
               /\ Len(hist) = kds'.nitems
               /\ ret' = ib.ntup ]_vars

\* a page with two tuples was added to a chunk that held items already
C28_Witness ==
    /\ spc = "idle"
    /\ op = "insert_block"
    /\ ret = 2
    /\ kds.nitems >= 3

(***************************************************************************)
(* pgstrom_create_kern_parambuf                                            *)
(***************************************************************************)
\* length of the Const/Param list, at most
MaxParams == 2

\* offsetof(kern_parambuf, poffset)
OffsetofPoffset == 8

\* "char padding[STROMALIGN_LEN]" is never initialized: a padding byte is
\* marked by a value that no datum holds
PaddingByte == 4097

\* get_typlen() of the types of the model; 0 is "cache lookup failed"
get_typlen(typid) ==
    CASE typid = "INT4OID" -> 4
      [] typid = "TEXTOID" -> -1
      [] OTHER -> 0

OidIsValid(typid) == typid # "InvalidOid"

\* Const nodes: a null, a by-value int4, a varlena text whose VARSIZE is 5
ConstNodes ==
    { [tag |-> "Const", constisnull |-> TRUE, constlen |-> 4,
       constvalue |-> <<0, 0, 0, 0>>, paramid |-> 0, paramtype |-> "InvalidOid"],
      [tag |-> "Const", constisnull |-> FALSE, constlen |-> 4,
       constvalue |-> <<7, 1, 0, 0>>, paramid |-> 0, paramtype |-> "InvalidOid"],
      [tag |-> "Const", constisnull |-> FALSE, constlen |-> -1,
       constvalue |-> <<20, 97, 98, 99, 100>>, paramid |-> 0,
       paramtype |-> "InvalidOid"] }

\* Param nodes: paramid 0 and MaxParams + 1 are out of the list's range
ParamNodes ==
    { [tag |-> "Param", constisnull |-> FALSE, constlen |-> 0,
       constvalue |-> << >>, paramid |-> id, paramtype |-> ty] :
        id \in 0..(MaxParams + 1), ty \in {"INT4OID", "TEXTOID"} }

\* any other expression node
OtherNodes ==
    { [tag |-> "Var", constisnull |-> FALSE, constlen |-> 0,
       constvalue |-> << >>, paramid |-> 0, paramtype |-> "InvalidOid"] }

Nodes == ConstNodes \cup ParamNodes \cup OtherNodes

\* ParamExternData: an unresolved parameter, an int4, a null int4, a text,
\* and one of a type that the catalog no longer has
ExternParams ==
    { [ptype |-> "InvalidOid", isnull |-> TRUE, value |-> << >>],
      [ptype |-> "INT4OID", isnull |-> FALSE, value |-> <<42, 0, 0, 0>>],
      [ptype |-> "INT4OID", isnull |-> TRUE, value |-> <<0, 0, 0, 0>>],
      [ptype |-> "TEXTOID", isnull |-> FALSE, value |-> <<16, 120, 121, 122>>],
      [ptype |-> "DroppedOid", isnull |-> FALSE, value |-> <<1>>] }

RECURSIVE SeqsOf(_, _)
SeqsOf(S, n) ==
    IF n = 0 THEN { << >> }
    ELSE { Append(q, x) : q \in SeqsOf(S, n - 1), x \in S }

\* ecxt_param_list_info: NULL, or numParams entries, with or without a
\* paramFetch hook; the hook, when asked for an entry, fills it in
ParamInfos ==
    { [null |-> TRUE, numParams |-> 0, params |-> << >>, paramFetch |-> << >>] }
    \cup
    { [null |-> FALSE, numParams |-> MaxParams, params |-> ps, paramFetch |-> pf] :
        ps \in { q \in SeqsOf(ExternParams, MaxParams) :
                    \A i \in 2..MaxParams : q[i] = q[2] },
        pf \in { << >> } \cup
               { [i \in 1..MaxParams |-> e] :
                    e \in { x \in ExternParams : x.isnull = FALSE } } }

\* the entry that "prm" points at once the hook had its chance (lines 108-112)
ResolvedParam(info, paramid) ==
    IF ~ OidIsValid(info.params[paramid].ptype) /\ info.paramFetch # << >>
    THEN info.paramFetch[paramid]
    ELSE info.params[paramid]

\* STROMALIGN(offsetof(kern_parambuf, poffset[nparams]))
KernParambufHead(nparams) ==
    STROMALIGN(OffsetofPoffset + (SizeofUint * nparams))

appendBinaryStringInfo(str, data) == str \o data

\* no padding behind an entry
ParambufAlignNone(str) == str

\* lines 152-155: pad str up to the next STROMALIGN boundary
ParambufAlign(str) ==
    IF STROMALIGN(Len(str)) # Len(str)
    THEN appendBinaryStringInfo(
            str, [i \in 1..(STROMALIGN(Len(str)) - Len(str)) |-> PaddingByte])
    ELSE str

\* lines 91-97 and 138-145: the bytes that are appended for a datum
DatumBytes(len, value) ==
    IF len > 0 THEN [i \in 1..len |-> value[i]] ELSE value

\* lines 85-89: what poffset[index] becomes for a Const
ParambufConstOffsetAlways(con, str) == Len(str)

ParambufConstOffset(con, str) == IF con.constisnull THEN 0 ELSE Len(str)

\* line 122: the safety check on the resolved type
ParamTypeMismatchNever(prm, param) == FALSE

ParamTypeMismatch(prm, param) == prm.ptype # param.paramtype

\* the state when pgstrom_create_kern_parambuf is entered
ParamInit ==
    /\ used_params \in UNION { SeqsOf(Nodes, n) : n \in 0..MaxParams }
    /\ param_info \in ParamInfos
    /\ pstr = << >>
    /\ poffset = << >>
    /\ pindex = 0
    /\ ppc = "entry"
    /\ kpbuf = NoParambuf
    /\ SortParked
    /\ StoreParked
    /\ ProjParked
    /\ StepParked
    /\ RegParked
    /\ FixParked
    /\ WgParked

\* lines 66-74: the head of the buffer, zeroed
ParambufBegin ==
    /\ ppc = "entry"
    /\ LET nparams == Len(used_params)
       IN  /\ pstr' = [i \in 1..KernParambufHead(nparams) |-> 0]
           /\ poffset' = [i \in 1..nparams |-> 0]
    /\ pindex' = 0
    /\ ppc' = "walk"
    /\ UNCHANGED <<used_params, param_info, kpbuf>>
    /\ UNCHANGED paramRest

\* lines 80-99 and 152-156: a Const node
ParambufConst ==
    /\ ppc = "walk"
    /\ pindex < Len(used_params)
    /\ LET con == used_params[pindex + 1]
       IN  /\ con.tag = "Const"
           /\ poffset' = [poffset EXCEPT
                             ![pindex + 1] = ParambufConstOffset(con, pstr)]
           /\ IF con.constisnull
              THEN pstr' = ParambufAlign(pstr)
              ELSE pstr' = ParambufAlign(
                                appendBinaryStringInfo(
                                    pstr, DatumBytes(con.constlen, con.constvalue)))
    /\ pindex' = pindex + 1
    /\ UNCHANGED <<used_params, param_info, ppc, kpbuf>>
    /\ UNCHANGED paramRest

\* lines 100-148 and 152-156: a Param node
ParambufParam ==
    /\ ppc = "walk"
    /\ pindex < Len(used_params)
    /\ LET param == used_params[pindex + 1]
           bound == /\ ~ param_info.null
                    /\ param.paramid > 0
                    /\ param.paramid <= param_info.numParams
           prm   == ResolvedParam(param_info, param.paramid)
       IN  /\ param.tag = "Param"
           /\ IF ~ bound
              THEN /\ pstr' = ParambufAlign(pstr)
                   /\ pindex' = pindex + 1
                   /\ UNCHANGED <<param_info, poffset, ppc>>
              ELSE
              /\ param_info' = [param_info EXCEPT !.params[param.paramid] = prm]
              /\ IF ~ OidIsValid(prm.ptype)
                 THEN \* "Param has no particular data type": null, continue
                      /\ poffset' = [poffset EXCEPT ![pindex + 1] = 0]
                      /\ pindex' = pindex + 1
                      /\ UNCHANGED <<pstr, ppc>>
                 ELSE IF ParamTypeMismatch(prm, param)
                 THEN /\ ppc' = "error_datatype_mismatch"
                      /\ UNCHANGED <<pstr, poffset, pindex>>
                 ELSE IF prm.isnull
                 THEN /\ poffset' = [poffset EXCEPT ![pindex + 1] = 0]
                      /\ pstr' = ParambufAlign(pstr)
                      /\ pindex' = pindex + 1
                      /\ UNCHANGED ppc
                 ELSE IF get_typlen(prm.ptype) = 0
                 THEN /\ ppc' = "error_cache_lookup"
                      /\ UNCHANGED <<pstr, poffset, pindex>>
                 ELSE \* lines 138-145: the value is appended; poffset[index]
                      \* is not assigned
                      /\ pstr' = ParambufAlign(
                                    appendBinaryStringInfo(
                                        pstr, DatumBytes(get_typlen(prm.ptype),
                                                         prm.value)))
                      /\ pindex' = pindex + 1
                      /\ UNCHANGED <<poffset, ppc>>
    /\ UNCHANGED <<used_params, kpbuf>>
    /\ UNCHANGED paramRest

\* lines 149-150: any other node
ParambufUnexpected ==
    /\ ppc = "walk"
    /\ pindex < Len(used_params)
    /\ used_params[pindex + 1].tag \notin {"Const", "Param"}
    /\ ppc' = "error_unexpected_node"
    /\ UNCHANGED <<used_params, param_info, pstr, poffset, pindex, kpbuf>>
    /\ UNCHANGED paramRest

\* lines 158-163
ParambufReturn ==
    /\ ppc = "walk"
    /\ pindex = Len(used_params)
    /\ kpbuf' = [length |-> Len(pstr), nparams |-> Len(used_params),
                 poffset |-> poffset, data |-> pstr]
    /\ ppc' = "returned"
    /\ UNCHANGED <<used_params, param_info, pstr, poffset, pindex>>
    /\ UNCHANGED paramRest

ParamNext ==
    \/ ParambufBegin
    \/ ParambufConst
    \/ ParambufParam
    \/ ParambufUnexpected
    \/ ParambufReturn

SpecParam == ParamInit /\ [][ParamNext]_vars

(***************************************************************************)
(* Properties of the parameter buffer                                      *)
(***************************************************************************)
\* the bytes of the returned buffer at [offset, offset + Len(bytes))
ParambufHolds(buffer, offset, bytes) ==
    /\ offset + Len(bytes) <= buffer.length
    /\ \A i \in 1..Len(bytes) : buffer.data[offset + i] = bytes[i]

\* the Param node is bound: the list exists and has an entry for it
ParamIsBound(info, param) ==
    /\ ~ info.null
    /\ param.paramid > 0
    /\ param.paramid <= info.numParams

\* C11: the buffer returned for a list of constants has nparams = length of
\* the list; poffset[i] = 0 exactly when constant i is null; for a non-null
\* constant poffset[i] is a non-zero offset inside the buffer at which the
\* constant's bytes are stored.  (Stated for every Const of any list.)
C11_ConstOffsets ==
    ppc = "returned" =>
        /\ kpbuf.nparams = Len(used_params)
        /\ Len(kpbuf.poffset) = Len(used_params)
        /\ \A i \in 1..Len(used_params) :
            used_params[i].tag = "Const" =>
                LET con == used_params[i]
                IN  /\ (kpbuf.poffset[i] = 0) <=> con.constisnull
                    /\ ~ con.constisnull =>
                        /\ kpbuf.poffset[i] > 0
                        /\ kpbuf.poffset[i] < kpbuf.length
                        /\ ParambufHolds(kpbuf, kpbuf.poffset[i],
                                         DatumBytes(con.constlen, con.constvalue))

\* a list of two constants, the first null and the second not
C11_Witness ==
    /\ ppc = "returned"
    /\ Len(used_params) = 2
    /\ \A i \in 1..2 : used_params[i].tag = "Const"
    /\ used_params[1].constisnull
    /\ ~ used_params[2].constisnull
    /\ kpbuf.nparams = 2
    /\ kpbuf.poffset[1] = 0
    /\ kpbuf.poffset[2] # 0

\* C12: for a bound parameter that resolves to a non-null value of the
\* plan-time type, the returned buffer's offset slot is a non-zero offset at
\* which the value's bytes are stored; the slot is 0 only when the parameter
\* is null.
C12_ParamOffsets ==
    ppc = "returned" =>
        \A i \in 1..Len(used_params) :
            LET param == used_params[i]
            IN  (param.tag = "Param" /\ ParamIsBound(param_info, param)) =>
                  LET prm == param_info.params[param.paramid]
                  IN  (/\ prm.ptype = param.paramtype
                       /\ OidIsValid(prm.ptype)
                       /\ ~ prm.isnull)
                      => /\ kpbuf.poffset[i] # 0
                         /\ ParambufHolds(kpbuf, kpbuf.poffset[i],
                                          DatumBytes(get_typlen(prm.ptype),
                                                     prm.value))

\* C13: the call ends in a fatal error, with no buffer returned, at a bound
\* parameter whose resolved type is valid and differs from the plan-time
\* type, and at a node that is neither a Const nor a Param; nothing follows
\* the error.
C13_FatalErrors ==
    [][ /\ (ppc = "walk" /\ pindex < Len(used_params)) =>
            LET node == used_params[pindex + 1]
            IN  /\ node.tag \notin {"Const", "Param"}
                    => (ppc' = "error_unexpected_node" /\ kpbuf' = NoParambuf)
                /\ (/\ node.tag = "Param"
                    /\ ParamIsBound(param_info, node)
                    /\ OidIsValid(ResolvedParam(param_info, node.paramid).ptype)
                    /\ ResolvedParam(param_info, node.paramid).ptype
                          # node.paramtype)
                    => (ppc' = "error_datatype_mismatch" /\ kpbuf' = NoParambuf)
        /\ ppc \in {"error_unexpected_node", "error_datatype_mismatch"}
            => vars' = vars
        /\ ppc' = "returned" =>
            \A i \in 1..Len(used_params) :
                LET node == used_params[i]
                IN  /\ node.tag \in {"Const", "Param"}
                    /\ (node.tag = "Param" /\ ParamIsBound(param_info', node))
                        => \/ ~ OidIsValid(param_info'.params[node.paramid].ptype)
                           \/ param_info'.params[node.paramid].ptype
                                 = node.paramtype ]_vars

\* the hook resolved the second node's parameter to another type than the plan's
C13_Witness ==
    /\ ppc = "error_datatype_mismatch"
    /\ pindex = 1
    /\ param_info.paramFetch # << >>
    /\ kpbuf = NoParambuf

(***************************************************************************)
(* init_kern_data_store over a header that exists                          *)
(***************************************************************************)
\* lines 277-286 and 324-328 as assignments to the fields of *kds
InitOverKeepCounts(k, tupdesc, length, format, nrooms, internal_format) ==
    LET fresh == init_kern_data_store(tupdesc, length, format, nrooms,
                                      internal_format)
    IN  [k EXCEPT !.length = length, !.ncols = tupdesc.natts,
                  !.nrooms = nrooms, !.format = format,
                  !.tdhasoid = tupdesc.tdhasoid, !.tdtypeid = tupdesc.tdtypeid,
                  !.tdtypmod = tupdesc.tdtypmod, !.colmeta = fresh.colmeta]

InitOver(k, tupdesc, length, format, nrooms, internal_format) ==
    LET fresh == init_kern_data_store(tupdesc, length, format, nrooms,
                                      internal_format)
    IN  [k EXCEPT !.length = length, !.usage = 0, !.ncols = tupdesc.natts,
                  !.nitems = 0, !.nrooms = nrooms, !.format = format,
                  !.tdhasoid = tupdesc.tdhasoid, !.tdtypeid = tupdesc.tdtypeid,
                  !.tdtypmod = tupdesc.tdtypmod, !.colmeta = fresh.colmeta]

\* what MemoryContextAlloc may hand out: headers holding leftovers
StaleHeaders ==
    { [length |-> 7, usage |-> 3, ncols |-> 1, nitems |-> 9, nrooms |-> 1,
       format |-> KDS_FORMAT_SLOT, tdhasoid |-> TRUE, tdtypeid |-> "rel_x",
       tdtypmod |-> 5,
       colmeta |-> << [attbyval |-> FALSE, attalign |-> 2, attlen |-> 2,
                       attnum |-> 7, attcacheoff |-> 99] >>],
      [length |-> 0, usage |-> 0, ncols |-> 0, nitems |-> 0, nrooms |-> 0,
       format |-> KDS_FORMAT_ROW, tdhasoid |-> FALSE, tdtypeid |-> "rel_y",
       tdtypmod |-> -1, colmeta |-> << >>] }

\* a variable-width column that has no internal format
TextAttr(n) == [attbyval |-> FALSE, attalign |-> "i", attlen |-> -1,
                attnum |-> n, atttypid |-> "text"]

\* row types handed to init_kern_data_store: those of the chunks, and row
\* types with a variable-width column between fixed-width ones
InitTupDescs ==
    TupDescs \cup
    { [natts |-> 3, tdhasoid |-> FALSE, tdtypeid |-> "rel_c", tdtypmod |-> -1,
       attrs |-> <<Int4Attr(1), NumericAttr(2), Int8Attr(3)>>],
      [natts |-> 3, tdhasoid |-> TRUE, tdtypeid |-> "rel_d", tdtypmod |-> -1,
       attrs |-> <<Int8Attr(1), TextAttr(2), Int4Attr(3)>>] }

InitArgs ==
    [tupdesc : InitTupDescs,
     length : {4 * STROMALIGN_LEN, 8 * STROMALIGN_LEN},
     format : {KDS_FORMAT_ROW, KDS_FORMAT_SLOT},
     nrooms : (0..MaxRooms) \cup {INT_MAX},
     internal_format : BOOLEAN]

\* a header as allocated, and the arguments of the calls to come
InitInit ==
    /\ kds_args \in InitArgs
    /\ kds \in StaleHeaders
    /\ spc = "init_fresh"
    /\ mem = << >>
    /\ overrun = 0
    /\ hist = << >>
    /\ row = << >>
    /\ ib = << >>
    /\ buf = << >>
    /\ op = "none"
    /\ ret = "none"
    /\ SortParked
    /\ ParamParked
    /\ ProjParked
    /\ StepParked
    /\ RegParked
    /\ FixParked
    /\ WgParked

\* init_kern_data_store on the header as allocated
InitFresh ==
    /\ spc = "init_fresh"
    /\ kds' = InitOver(kds, kds_args.tupdesc, kds_args.length, kds_args.format,
                       kds_args.nrooms, kds_args.internal_format)
    /\ spc' = "init_done"
    /\ UNCHANGED kds_args
    /\ UNCHANGED initRest

\* the chunk is filled: rows went in, usage and nitems moved
InitFill ==
    /\ spc = "init_done"
    /\ \E n \in 1..(MaxRooms + 1), u \in {0, ALIGNOF_LONG, STROMALIGN_LEN} :
        /\ n <= kds.nrooms
        /\ kds' = [kds EXCEPT !.nitems = n, !.usage = u]
    /\ spc' = "init_filled"
    /\ UNCHANGED kds_args
    /\ UNCHANGED initRest

\* init_kern_data_store again, with the same arguments
InitAgain ==
    /\ spc \in {"init_done", "init_filled"}
    /\ kds' = InitOver(kds, kds_args.tupdesc, kds_args.length, kds_args.format,
                       kds_args.nrooms, kds_args.internal_format)
    /\ spc' = "init_again"
    /\ UNCHANGED kds_args
    /\ UNCHANGED initRest

InitNext ==
    \/ InitFresh
    \/ InitFill
    \/ InitAgain

SpecInit == InitInit /\ [][InitNext]_vars

C27_CachedOffsets ==
    spc \in {"init_done", "init_again"} =>
        \A i \in 1..Len(kds.colmeta) :
            LET c == kds.colmeta[i]
                fixed == \A j \in 1..i : kds.colmeta[j].attlen > 0
            IN  /\ fixed => /\ c.attcacheoff >= 0
                            /\ c.attcacheoff % c.attalign = 0
                /\ ~ fixed => c.attcacheoff = -1
                /\ (fixed /\ i > 1) =>
                       kds.colmeta[i - 1].attcacheoff + kds.colmeta[i - 1].attlen
                           <= c.attcacheoff

\* a fixed-width column behind a variable-width one that follows a column
\* with a known offset
C27_Witness ==
    /\ spc = "init_done"
    /\ Len(kds.colmeta) = 3
    /\ kds.colmeta[1].attcacheoff >= 0
    /\ kds.colmeta[2].attlen < 0
    /\ kds.colmeta[3].attlen > 0
    /\ kds.colmeta[3].attcacheoff = -1

C21_WitnessKept ==
    /\ pc = "done"
    /\ kcxt_e = StromError_Success
    /\ kerror = StromError_DataStoreNoSpace
    /\ launches # << >>

(***************************************************************************)
(* C25: when gpusort_bitonic_local has run, every window of the result     *)
(* array, entries [p * 2B, min((p + 1) * 2B, N)) for the block size B, is  *)
(* in comparator order, also a last window shorter than 2B whose length is *)
(* not a power of two.                                                     *)
(***************************************************************************)
C25_WindowsSorted ==
    (Len(launches) = 1 /\ pc \in {"step", "fixup"}) =>
        \A x \in 0 .. (nitems - 1), y \in 0 .. (nitems - 1) :
            (x < y /\ x \div (2 * block_sz) = y \div (2 * block_sz)) =>
                gpusort_keycomp(keys, results[x], results[y]) <= 0

\* the number of merge launches among the first n entries of the log
MergesBefore(log, n) == Cardinality({m \in 1 .. n : log[m][1] = "merge"})

\* the order of the launches in the log of a gpusort_main call whose block
\* size is bsz
PhaseOrder(log, bsz) ==
    /\ log # << >> => log[1][1] = "local"
    /\ \A k \in 2 .. Len(log) :
          LET cur == log[k]
              prev == log[k - 1]
          IN  /\ cur[1] # "local"
              /\ prev[1] # "fixup"
              /\ cur[1] = "step" =>
                    IF prev[1] = "step"
                    THEN ~ cur[3] /\ 2 * cur[2] = prev[2]
                    ELSE cur[3] /\
                         cur[2] = 4 * bsz * 2 ^ MergesBefore(log, k - 1)
              /\ cur[1] = "merge" => prev[1] = "step" /\ prev[2] = 4 * bsz
              /\ cur[1] = "fixup" => prev[1] \in {"local", "merge"}

(***************************************************************************)
(* C20: gpusort_main launches one local sort first; then, round by round   *)
(* with the run size doubling from the block size, global steps whose unit *)
(* size halves from one to the next and of which exactly the first is      *)
(* reversing, closed by one merge; and one pointer fixup last.  A launch   *)
(* is issued only while no earlier launch or synchronization has failed.   *)
(***************************************************************************)
C20_PhaseOrder ==
    /\ [](PhaseOrder(launches, block_sz))
    /\ []((pc = "done" /\ kerror = StromError_Success) =>
             (launches # << >> /\ launches[Len(launches)][1] = "fixup"))
    /\ [][launches' # launches =>
             /\ kcxt_e = StromError_Success
             /\ Len(launches') = Len(launches) + 1
             /\ \A k \in 1 .. Len(launches) : launches'[k] = launches[k]]_vars

\* a call has ended well after a round of two steps, the second not reversing
C20_Witness ==
    /\ pc = "done"
    /\ kerror = StromError_Success
    /\ \E k \in 2 .. Len(launches) :
          /\ launches[k][1] = "step" /\ ~ launches[k][3]
          /\ launches[k - 1][1] = "step" /\ launches[k - 1][3]
    /\ MergesBefore(launches, Len(launches)) >= 2
    /\ launches[Len(launches)][1] = "fixup"

(***************************************************************************)
(* gpusort_projection (cuda_gpusort.h).  One launch runs MaxGroups thread  *)
(* blocks of MaxLocal threads each; thread t of block g owns input row     *)
(* get_global_id(g, t).  The blocks share kds_slot and kresults and touch  *)
(* them with atomicAdd; the quick check before the atomics is a plain      *)
(* read, so every thread takes it on its own against whatever the header   *)
(* holds at that moment.                                                   *)
(***************************************************************************)
MaxGroups == 2
MaxLocal == 2
MaxSlotRooms == 3
MaxResultRooms == 3
MaxRuns == 2
MaxGarbage == 1

ProjGroups == 0 .. (MaxGroups - 1)
ProjThreads == 0 .. (MaxLocal - 1)
ProjRows == 0 .. (MaxGroups * MaxLocal - 1)

get_global_id(g, t) == g * MaxLocal + t

\* what a __shared__ word nobody stored to may hold
GarbageWords == 0 .. MaxGarbage

RECURSIVE StairSum(_, _)
StairSum(values, n) ==
    IF n = 0 THEN 0 ELSE StairSum(values, n - 1) + values[n - 1]

\* sum of the values of the threads with a smaller local id; the total over
\* the block is StairSum(values, MaxLocal)
arithmetic_stairlike_add(values, t) == StairSum(values, t)

\* the test of the quick bailout and of the confirmation
ProjNoSpace(slot, nrows, nbytes) ==
    KERN_DATA_STORE_SLOT_LENGTH(slot.ncols, nrows) + nbytes > slot.length

\* a thread picks its row up only if it exists and its tag is clear
ProjClaimsIgnoreTag(in, gid) == gid < in.nitems

ProjClaims(in, gid) == gid < in.nitems /\ gid \notin in.tagged

\* the entry of gpusort_projection for block g, up to the stairlike adds
ProjScan(in, g) ==
    LET tup == [t \in ProjThreads |-> ProjClaims(in, get_global_id(g, t))]
        one == [t \in ProjThreads |-> IF tup[t] THEN 1 ELSE 0]
        len == [t \in ProjThreads |->
                   IF tup[t] THEN in.extra[get_global_id(g, t)] ELSE 0]
    IN  [pc            |-> "quick",
         tupitem       |-> tup,
         nrows_ofs     |-> [t \in ProjThreads |-> arithmetic_stairlike_add(one, t)],
         nrows_sum     |-> StairSum(one, MaxLocal),
         extra_len     |-> len,
         extra_ofs     |-> [t \in ProjThreads |-> arithmetic_stairlike_add(len, t)],
         extra_sum     |-> StairSum(len, MaxLocal),
         quick         |-> [t \in ProjThreads |-> "todo"],
         alloc         |-> 0,
         extra_base    |-> Uninitialized,
         nrows_base    |-> Uninitialized,
         kresults_base |-> Uninitialized]

\* the threads of a block that did not leave at the quick bailout
ProjAlive(grp) == {t \in ProjThreads : grp.quick[t] = "pass"}

ProjSegments ==
    { pgstrom_create_data_store_slot(tupdesc, nrooms, FALSE) :
        tupdesc \in {td \in TupDescs : td.natts = 3}, nrooms \in 1 .. MaxSlotRooms }

ProjResultbufs ==
    { [nitems |-> 0, nrooms |-> nrooms,
       results |-> [p \in 0 .. (nrooms - 1) |-> Uninitialized],
       beyond |-> {}] : nrooms \in 1 .. MaxResultRooms }

\* extra bytes each input row needs, a multiple of MAXALIGN
ProjExtras ==
    { [gid \in ProjRows |-> 0],
      [gid \in ProjRows |-> IF gid % 2 = 1 THEN MAXALIGN(1) ELSE 0] }

ProjInputs ==
    { [nitems |-> n, tagged |-> {}, extra |-> x,
       copies |-> [gid \in ProjRows |-> 0]] :
        n \in 1 .. (MaxGroups * MaxLocal), x \in ProjExtras }

ProjIdle == [pc |-> "done"]

ProjInit ==
    /\ kds_in \in ProjInputs
    /\ kds_slot \in ProjSegments
    /\ slot_rows = {}
    /\ kresults \in ProjResultbufs
    /\ n_loaded = 0
    /\ gkerror = StromError_Success
    /\ groups = [g \in ProjGroups |-> ProjIdle]
    /\ prun = [n |-> 0, tagged0 |-> {}, loaded0 |-> 0]
    /\ SortParked
    /\ StoreParked
    /\ ParamParked
    /\ StepParked
    /\ RegParked
    /\ FixParked
    /\ WgParked

\* the host launches the kernel over the input chunk, either into the
\* segment in use or into a fresh one of the same shape
ProjLaunch ==
    /\ \A g \in ProjGroups : groups[g].pc = "done"
    /\ prun.n < MaxRuns
    /\ \E fresh \in BOOLEAN :
        /\ prun.n = 0 => ~ fresh
        /\ kds_slot' = IF fresh THEN [kds_slot EXCEPT !.nitems = 0, !.usage = 0]
                       ELSE kds_slot
        /\ slot_rows' = IF fresh THEN {} ELSE slot_rows
        /\ kresults' = IF fresh
                       THEN [nitems |-> 0, nrooms |-> kresults.nrooms,
                             results |-> [p \in DOMAIN kresults.results |->
                                             Uninitialized],
                             beyond |-> {}]
                       ELSE kresults
    /\ groups' = [g \in ProjGroups |-> ProjScan(kds_in, g)]
    /\ prun' = [n |-> prun.n + 1, tagged0 |-> kds_in.tagged,
                loaded0 |-> n_loaded]
    /\ UNCHANGED <<kds_in, n_loaded, gkerror>>
    /\ UNCHANGED projRest

\* lines 138-144: one thread's quick bailout test
ProjQuick(g, t) ==
    /\ groups[g].pc = "quick"
    /\ groups[g].quick[t] = "todo"
    /\ LET grp == groups[g]
           full == ProjNoSpace(kds_slot, kds_slot.nitems + grp.nrows_sum,
                               kds_slot.usage + grp.extra_sum)
       IN  /\ groups' = [groups EXCEPT ![g].quick[t] =
                                            IF full THEN "bail" ELSE "pass"]
           /\ gkerror' = IF full
                         THEN kern_writeback_error_status(
                                  gkerror, StromError_DataStoreNoSpace)
                         ELSE gkerror
    /\ UNCHANGED <<kds_in, kds_slot, slot_rows, kresults, n_loaded, prun>>
    /\ UNCHANGED projRest

\* line 149: thread 0 reserves the extra bytes
ProjAllocUsage(g) ==
    /\ groups[g].pc = "quick"
    /\ groups[g].quick[0] = "pass"
    /\ groups[g].alloc = 0
    /\ groups' = [groups EXCEPT ![g].extra_base = kds_slot.usage,
                                ![g].alloc = 1]
    /\ kds_slot' = [kds_slot EXCEPT !.usage = @ + groups[g].extra_sum]
    /\ UNCHANGED <<kds_in, slot_rows, kresults, n_loaded, gkerror, prun>>
    /\ UNCHANGED projRest

\* line 150: thread 0 reserves the slot rows
ProjAllocRows(g) ==
    /\ groups[g].pc = "quick"
    /\ groups[g].alloc = 1
    /\ groups' = [groups EXCEPT ![g].nrows_base = kds_slot.nitems,
                                ![g].alloc = 2]
    /\ kds_slot' = [kds_slot EXCEPT !.nitems = @ + groups[g].nrows_sum]
    /\ UNCHANGED <<kds_in, slot_rows, kresults, n_loaded, gkerror, prun>>
    /\ UNCHANGED projRest

\* the barrier of line 152: every thread decided, thread 0 done or gone
ProjBarrier(grp) ==
    /\ \A t \in ProjThreads : grp.quick[t] # "todo"
    /\ grp.quick[0] = "bail" \/ grp.alloc = 2

\* lines 155-167: the confirmation, by the threads that are still there
ProjConfirm(g) ==
    /\ groups[g].pc = "quick"
    /\ ProjBarrier(groups[g])
    /\ LET grp == groups[g]
       IN  \E xb \in (IF grp.alloc = 2 THEN {grp.extra_base} ELSE GarbageWords),
              nb \in (IF grp.alloc = 2 THEN {grp.nrows_base} ELSE GarbageWords) :
             LET full == ProjNoSpace(kds_slot, nb + grp.nrows_sum,
                                     xb + grp.extra_sum)
             IN  /\ groups' = [groups EXCEPT
                        ![g].extra_base = xb,
                        ![g].nrows_base = nb,
                        ![g].pc = IF ProjAlive(grp) = {} \/ full
                                  THEN "done" ELSE "reserve"]
                 /\ gkerror' = IF ProjAlive(grp) # {} /\ full
                               THEN kern_writeback_error_status(
                                        gkerror, StromError_DataStoreNoSpace)
                               ELSE gkerror
    /\ UNCHANGED <<kds_in, kds_slot, slot_rows, kresults, n_loaded, prun>>
    /\ UNCHANGED projRest

\* lines 172-174: thread 0 reserves the result entries
ProjResultAlloc(g) ==
    /\ groups[g].pc = "reserve"
    /\ LET grp == groups[g]
       IN  IF 0 \in ProjAlive(grp)
           THEN /\ groups' = [groups EXCEPT ![g].kresults_base = kresults.nitems,
                                            ![g].pc = "check"]
                /\ kresults' = [kresults EXCEPT !.nitems = @ + grp.nrows_sum]
           ELSE /\ \E kb \in GarbageWords :
                      groups' = [groups EXCEPT ![g].kresults_base = kb,
                                               ![g].pc = "check"]
                /\ UNCHANGED kresults
    /\ UNCHANGED <<kds_in, kds_slot, slot_rows, n_loaded, gkerror, prun>>
    /\ UNCHANGED projRest

\* line 180, by every thread that is still there
ProjStoreResults(res, grp) ==
    LET at == {grp.kresults_base + grp.nrows_ofs[t] : t \in ProjAlive(grp)}
    IN  [res EXCEPT
           !.results = [p \in DOMAIN res.results |->
                           IF p \in at
                           THEN grp.nrows_base + (p - grp.kresults_base)
                           ELSE res.results[p]],
           !.beyond = @ \cup {p \in at : p >= res.nrooms}]

\* lines 175-181: the capacity test of the result array, then the store
ProjResultCheck(g) ==
    /\ groups[g].pc = "check"
    /\ LET grp == groups[g]
       IN  IF grp.kresults_base + grp.nrows_sum > kresults.nrooms
           THEN /\ groups' = [groups EXCEPT ![g].pc = "done"]
                /\ gkerror' = kern_writeback_error_status(
                                  gkerror, StromError_DataStoreNoSpace)
                /\ UNCHANGED kresults
           ELSE /\ groups' = [groups EXCEPT ![g].pc = "copy"]
                /\ kresults' = ProjStoreResults(kresults, grp)
                /\ UNCHANGED gkerror
    /\ UNCHANGED <<kds_in, kds_slot, slot_rows, n_loaded, prun>>
    /\ UNCHANGED projRest

\* lines 184-249: copy the values, tag the row, count the rows moved
ProjCopy(g) ==
    /\ groups[g].pc = "copy"
    /\ LET grp == groups[g]
           movers == {t \in ProjAlive(grp) : grp.tupitem[t]}
           moved == {get_global_id(g, t) : t \in movers}
       IN  /\ slot_rows' = slot_rows \cup
                  { <<grp.nrows_base + grp.nrows_ofs[t], get_global_id(g, t),
                      grp.kresults_base + grp.nrows_ofs[t],
                      kds_slot.length - (grp.extra_base + grp.extra_sum)
                          + grp.extra_ofs[t],
                      grp.extra_len[t]>> : t \in movers }
           /\ kds_in' = [kds_in EXCEPT
                  !.tagged = @ \cup moved,
                  !.copies = [gid \in ProjRows |->
                                 IF gid \in moved THEN @[gid] + 1 ELSE @[gid]]]
           /\ n_loaded' = IF 0 \in ProjAlive(grp)
                          THEN n_loaded + grp.nrows_sum ELSE n_loaded
           /\ groups' = [groups EXCEPT ![g].pc = "done"]
    /\ UNCHANGED <<kds_slot, kresults, gkerror, prun>>
    /\ UNCHANGED projRest

ProjNext ==
    \/ ProjLaunch
    \/ \E g \in ProjGroups, t \in ProjThreads : ProjQuick(g, t)
    \/ \E g \in ProjGroups : ProjAllocUsage(g)
    \/ \E g \in ProjGroups : ProjAllocRows(g)
    \/ \E g \in ProjGroups : ProjConfirm(g)
    \/ \E g \in ProjGroups : ProjResultAlloc(g)
    \/ \E g \in ProjGroups : ProjResultCheck(g)
    \/ \E g \in ProjGroups : ProjCopy(g)

SpecProj == ProjInit /\ [][ProjNext]_vars

ProjRunOver == prun.n > 0 /\ \A g \in ProjGroups : groups[g].pc = "done"


\* the input rows tagged since the kernel was launched
ProjTaggedNow == kds_in.tagged \ prun.tagged0

(***************************************************************************)
(* C15: a row tagged by this run has its values in a slot row the block    *)
(* reserved and its position in the result array, and once all blocks of   *)
(* the run have returned n_loaded has grown by exactly the number of rows  *)
(* that this run tagged.                                                   *)
(***************************************************************************)
C15_LoadedCountsTagged ==
    /\ \A gid \in ProjTaggedNow : \E p \in slot_rows : p[2] = gid
    /\ ProjRunOver =>
          n_loaded - prun.loaded0 = Cardinality(ProjTaggedNow)


\* the threads of block g whose input row existed and was untagged when the
\* kernel was launched
ProjUntaggedAtLaunch(g) ==
    {t \in ProjThreads : /\ get_global_id(g, t) < kds_in.nitems
                         /\ get_global_id(g, t) \notin prun.tagged0}

C17_ResultsWithinRooms ==
    /\ kresults.nitems <= kresults.nrooms
    /\ kresults.beyond = {}

(***************************************************************************)
(* C18: whatever the blocks of gpusort_projection do, and also when some   *)
(* block is turned away for lack of space, the slot rows counted by nitems *)
(* plus the extra bytes in use fit the chunk length, and once the run is   *)
(* over nitems is the number of slot rows that received values.            *)
(***************************************************************************)
C18_SlotChunkConsistent ==
    /\ ~ ProjNoSpace(kds_slot, kds_slot.nitems, kds_slot.usage)
    /\ ProjRunOver =>
          kds_slot.nitems = Cardinality({p[1] : p \in slot_rows})


(***************************************************************************)
(* One launch of gpusort_bitonic_step (cuda_gpusort.h), its workers taken  *)
(* one at a time in any order.  unitsz is a power of two, as gpusort_main  *)
(* passes it; the number of workers is the grid of gpusort_main.           *)
(***************************************************************************)
MaxStepItems == 6
MaxStepLog2 == 3

StepUnitSizes == {2^e : e \in 1 .. MaxStepLog2}
StepBlockSizes == {b \in 1 .. MaxThreads : Pow2Floor(b) = b}

\* sorting keys of the slot rows: descending, or cycling through the key values
StepKeys(n) ==
    { [x \in 0 .. (n - 1) |-> n - 1 - x],
      [x \in 0 .. (n - 1) |-> x % (MaxKey + 1)] }

\* "if (idx1 >= nitems) goto out"
StepInRange(idx1, n) == idx1 < n

StepLaunchesOf(n) ==
    { [nitems |-> n, unitsz |-> u, reversing |-> r,
       nworkers |-> StepWorkers(n, u, b),
       keys |-> k,
       results |-> [x \in 0 .. (n - 1) |-> x],
       done |-> {},
       pair |-> [id \in 0 .. (StepWorkers(n, u, b) - 1) |-> << >>]] :
        u \in StepUnitSizes, r \in BOOLEAN, b \in StepBlockSizes,
        k \in StepKeys(n) }

StepLaunches == UNION { StepLaunchesOf(n) : n \in 1 .. MaxStepItems }

StepInit ==
    /\ stp \in { l \in StepLaunches : l.nworkers > 0 }
    /\ SortParked
    /\ StoreParked
    /\ ParamParked
    /\ ProjParked
    /\ RegParked
    /\ FixParked
    /\ WgParked

\* the body of gpusort_bitonic_step for the worker with global id "id"
StepWorker(id) ==
    /\ id \in 0 .. (stp.nworkers - 1)
    /\ id \notin stp.done
    /\ LET idx0 == BitonicIdx0(id, stp.unitsz)
           idx1 == BitonicIdx1(idx0, stp.unitsz, stp.reversing)
       IN  IF ~ StepInRange(idx1, stp.nitems)
           THEN stp' = [stp EXCEPT !.done = @ \cup {id}]
           ELSE LET pos0 == stp.results[idx0]
                    pos1 == stp.results[idx1]
                IN  stp' = [stp EXCEPT
                       !.done = @ \cup {id},
                       !.pair[id] = <<idx0, idx1>>,
                       !.results =
                           IF gpusort_keycomp(stp.keys, pos0, pos1) > 0
                           THEN [@ EXCEPT ![idx0] = pos1, ![idx1] = pos0]
                           ELSE @]
    /\ UNCHANGED stepRest

StepNext == \E id \in 0 .. (MaxStepItems * 2 ^ MaxStepLog2) : StepWorker(id)

SpecStep == StepInit /\ [][StepNext]_vars

\* the positions of kresults->results[] a worker read or wrote
StepTouched(id) ==
    IF stp.pair[id] = << >> THEN {} ELSE {stp.pair[id][1], stp.pair[id][2]}

(***************************************************************************)
(* C19: in one launch of gpusort_bitonic_step, whatever the unit size and  *)
(* the reversing flag, two different workers touch disjoint positions,     *)
(* each worker's idx0 is below its idx1, and no position at or beyond      *)
(* nitems is read or written.                                              *)
(***************************************************************************)
C19_StepPairsDisjoint ==
    /\ \A a \in stp.done, b \in stp.done :
          a # b => StepTouched(a) \cap StepTouched(b) = {}
    /\ \A a \in stp.done :
          stp.pair[a] # << >> => stp.pair[a][1] < stp.pair[a][2]
    /\ \A a \in stp.done : \A x \in StepTouched(a) : x >= 0 /\ x < stp.nitems

\* a reversing launch has ended: several workers exchanged, one stayed out
C19_Witness ==
    /\ stp.done = 0 .. (stp.nworkers - 1)
    /\ stp.reversing
    /\ stp.unitsz = 4
    /\ \E a \in stp.done, b \in stp.done :
          a # b /\ stp.pair[a] # << >> /\ stp.pair[b] # << >>
    /\ \E a \in stp.done : stp.pair[a] = << >>
    /\ \E x \in DOMAIN stp.results : stp.results[x] # x


(***************************************************************************)
(* The chunks of one GpuContext (datastore.c): pgstrom_create_data_store_  *)
(* row, pgstrom_create_data_store_slot and pgstrom_release_data_store,     *)
(* with gcontext->pds_list, the pgstrom_data_store objects and the backing *)
(* files.  A chunk is named by the order of its creation; the file a       *)
(* file-mapped row chunk creates carries the chunk's name.  ereport(ERROR) *)
(* ends the call where it stands.                                          *)
(***************************************************************************)
MaxChunks == 3
MaxRowLength == 16
MaxFixRows == 3
MaxWgThreads == 8
MaxWgShmem == 12
MaxWgItems == 9

RegTupDesc == CHOOSE td \in TupDescs : td.natts = 3

\* a pgstrom_data_store that was not allocated, and one fresh from
\* MemoryContextAllocZero
RegNoPds ==
    [made |-> FALSE, live |-> FALSE, kds |-> "null", kds_fname |-> 0,
     kds_length |-> 0, kds_offset |-> 0, maplen |-> 0, mapoff |-> 0,
     ktoast |-> 0]

RegZeroPds == [RegNoPds EXCEPT !.made = TRUE, !.live = TRUE]

\* what the file steps of a creation may do: fail at OpenTransientFile, at
\* ftruncate or at mmap, or succeed
FileOutcomes == {"open", "truncate", "mmap", "ok"}

\* values the local kds_length, read without having been assigned, may hold
UninitLengths(len) == {len, 2 * len}

RegInit ==
    /\ reg = [pds_list |-> << >>,
              pds      |-> [id \in 1 .. MaxChunks |-> RegNoPds],
              files    |-> [f \in 1 .. MaxChunks |-> -1],
              unlinks  |-> << >>,
              unmaps   |-> << >>,
              err      |-> "none",
              last     |-> <<"none", 0>>]
    /\ SortParked
    /\ StoreParked
    /\ ParamParked
    /\ ProjParked
    /\ StepParked
    /\ FixParked
    /\ WgParked

\* the chunks that exist, and the ones some existing chunk holds as its toast
RegLive == {id \in 1 .. MaxChunks : reg.pds[id].live}
RegOwned == {reg.pds[id].ktoast : id \in RegLive} \ {0}

\* the file steps shared by both creations: open (creating the file or not),
\* ftruncate to offset + length, mmap at the offset; o says where they stop
RegFileSteps(r, id, fname, create, offset, o, maplen) ==
    LET opened == o # "open" /\ (create \/ r.files[fname] >= 0)
        r1 == IF opened /\ create THEN [r EXCEPT !.files[fname] = 0] ELSE r
        r2 == [r1 EXCEPT !.files[fname] = offset + r.pds[id].kds_length]
    IN  IF ~ opened
        THEN [r EXCEPT !.err = "could not open"]
        ELSE IF o = "truncate"
        THEN [r1 EXCEPT !.err = "could not truncate"]
        ELSE IF o = "mmap"
        THEN [r2 EXCEPT !.err = "could not mmap"]
        ELSE [r2 EXCEPT !.pds[id].kds = "mapped",
                        !.pds[id].maplen = maplen,
                        !.pds[id].mapoff = offset]

\* lines 348-350 and 415-417: the object is allocated and put on pds_list
RegRegister(r, id) ==
    [r EXCEPT !.pds[id] = RegZeroPds, !.pds_list = Append(@, id)]

\* pgstrom_create_data_store_row
RegCreateRow ==
    /\ reg.err = "none"
    /\ \E id \in 1 .. MaxChunks, file_mapped \in BOOLEAN, o \in FileOutcomes :
        /\ ~ reg.pds[id].made
        /\ \A other \in 1 .. (id - 1) : reg.pds[other].made
        /\ file_mapped \/ o = "ok"
        /\ LET len == RowStoreLength(RegTupDesc, MaxRowLength)
               r1 == [RegRegister(reg, id) EXCEPT
                         !.pds[id].kds_length = len,
                         !.pds[id].kds_offset = 0,
                         !.last = <<"create_row", id>>]
           IN  IF ~ file_mapped
               THEN reg' = [r1 EXCEPT !.pds[id].kds = "alloc"]
               ELSE \E maplen \in UninitLengths(len) :
                       reg' = RegFileSteps(
                                  [r1 EXCEPT !.pds[id].kds_fname = id],
                                  id, id, TRUE, 0, o, maplen)
    /\ UNCHANGED regRest

\* pgstrom_create_data_store_slot
RegCreateSlot ==
    /\ reg.err = "none"
    /\ \E id \in 1 .. MaxChunks, ktoast \in {0} \cup (RegLive \ RegOwned),
          o \in FileOutcomes :
        /\ ~ reg.pds[id].made
        /\ \A other \in 1 .. (id - 1) : reg.pds[other].made
        /\ LET len == SlotStoreLength(RegTupDesc, 1)
               r1 == [RegRegister(reg, id) EXCEPT
                         !.pds[id].kds_length = len,
                         !.last = <<"create_slot", id>>]
           IN  IF ktoast = 0 \/ reg.pds[ktoast].kds_fname = 0
               THEN /\ o = "ok"
                    /\ reg' = [r1 EXCEPT !.pds[id].kds = "alloc",
                                         !.pds[id].ktoast = ktoast]
               ELSE \E maplen \in UninitLengths(len) :
                       LET kds_offset == TYPEALIGN(BLCKSZ,
                                                   reg.pds[ktoast].kds_length)
                           fname == reg.pds[ktoast].kds_fname
                           r2 == RegFileSteps(
                                     [r1 EXCEPT !.pds[id].kds_fname = fname],
                                     id, fname, FALSE, kds_offset, o, maplen)
                       IN  reg' = IF r2.err = "none"
                                  THEN [r2 EXCEPT !.pds[id].ktoast = ktoast]
                                  ELSE r2
    /\ UNCHANGED regRest

\* release of the chunk alone, its toast chunk left as it is
RegReleasedNoCascade(r, id) ==
    [r EXCEPT !.pds_list = SelectSeq(@, LAMBDA x : x # id),
              !.pds[id].live = FALSE,
              !.pds[id].kds = "freed"]

\* pgstrom_release_data_store(pds), pds being the chunk id
RECURSIVE RegReleased(_, _)
RegReleased(r, id) ==
    LET r1 == IF r.pds[id].ktoast # 0
              THEN RegReleased(r, r.pds[id].ktoast)
              ELSE r
        r2 == [r1 EXCEPT !.pds_list = SelectSeq(@, LAMBDA x : x # id),
                         !.pds[id].live = FALSE]
        fname == r.pds[id].kds_fname
    IN  IF fname # 0
        THEN [r2 EXCEPT !.unmaps = Append(@, id),
                        !.unlinks = Append(@, <<fname, r2.files[fname] >= 0>>),
                        !.files[fname] = -1,
                        !.pds[id].kds = "unmapped"]
        ELSE [r2 EXCEPT !.pds[id].kds = "freed"]

\* the caller releases a chunk it holds: one that exists and is not the toast
\* chunk of another one
RegRelease ==
    /\ reg.err = "none"
    /\ \E id \in RegLive \ RegOwned :
          reg' = [RegReleased(reg, id) EXCEPT !.last = <<"release", id>>]
    /\ UNCHANGED regRest

RegNext ==
    \/ RegCreateRow
    \/ RegCreateSlot
    \/ RegRelease

SpecReg == RegInit /\ [][RegNext]_vars

\* a chunk together with the toast chunks hanging off it
RECURSIVE RegChain(_, _)
RegChain(r, id) ==
    IF id = 0 THEN {} ELSE {id} \cup RegChain(r, r.pds[id].ktoast)

RegListed(r) == {r.pds_list[k] : k \in 1 .. Len(r.pds_list)}

(***************************************************************************)
(* C22: after any sequence of create_row, create_slot and release calls    *)
(* pds_list holds exactly the chunks created and not yet released, each    *)
(* once.  A release takes the chunk and the toast chunks it owns off the   *)
(* list and gives up their storage, and changes no other chunk and not the *)
(* order of the others; a creation appends the new chunk and changes no    *)
(* other.                                                                  *)
(***************************************************************************)
C22_RegistryExact ==
    /\ [](/\ RegListed(reg) = RegLive
          /\ Len(reg.pds_list) = Cardinality(RegLive))
    /\ [][reg'.last # reg.last =>
            LET id == reg'.last[2]
                gone == IF reg'.last[1] = "release"
                        THEN RegChain(reg, id) ELSE {}
            IN  /\ \A c \in gone :
                      /\ ~ reg'.pds[c].live
                      /\ reg'.pds[c].kds \in {"freed", "unmapped"}
                /\ \A c \in (1 .. MaxChunks) \ (gone \cup {id}) :
                      reg'.pds[c] = reg.pds[c]
                /\ reg'.pds_list =
                      IF reg'.last[1] = "release"
                      THEN SelectSeq(reg.pds_list, LAMBDA x : x \notin gone)
                      ELSE Append(reg.pds_list, id)]_vars

\* a slot chunk owning a toast chunk was released while another chunk stays
C22_Witness ==
    /\ reg.last[1] = "release"
    /\ reg.pds[reg.last[2]].ktoast # 0
    /\ ~ reg.pds[reg.pds[reg.last[2]].ktoast].live
    /\ reg.pds_list # << >>
    /\ reg.err = "none"

(***************************************************************************)
(* C23: when the creation of a file-mapped chunk fails at the creation of  *)
(* the file, at its truncation or at its mapping, pds_list holds no chunk  *)
(* whose backing storage was never established.                            *)
(***************************************************************************)
C23_NoPartialChunk ==
    \A id \in RegListed(reg) : reg.pds[id].kds \in {"alloc", "mapped"}


(***************************************************************************)
(* C26: whatever the interleaving of the blocks, two different workers     *)
(* that obtained space never hold the same slot row, the same position of  *)
(* the result array or overlapping bytes of the extra area, and no         *)
(* worker's extra bytes overlap a slot row.  An entry of slot_rows is      *)
(* <<kds_index, input row, position in results[], extra_buf, extra_len>>.  *)
(***************************************************************************)
C26_DisjointGrants ==
    \A p \in slot_rows, q \in slot_rows :
       /\ p # q =>
            /\ p[1] # q[1]
            /\ p[3] # q[3]
            /\ ~ (p[5] > 0 /\ q[5] > 0 /\ p[4] < q[4] + q[5] /\ q[4] < p[4] + p[5])
       /\ ~ (p[5] > 0 /\
             p[4] < KERN_DATA_STORE_SLOT_LENGTH(kds_slot.ncols, q[1] + 1))


(***************************************************************************)
(* C29: once the geometry of gpusort_main is settled, the block size used  *)
(* for the local, step and merge launches is one value that no longer      *)
(* changes; it is a power of two, it is not above the maximum block size   *)
(* of any of the three kernel functions, and no larger power of two has    *)
(* that property.                                                          *)
(***************************************************************************)
C29_CommonBlockSize ==
    /\ [](pc \notin {"geometry", "out", "done"} =>
            /\ \E n \in 0..MaxThreads : block_sz = 2^n
            /\ \A k \in 0..2 : block_sz <= func_maxthreads[k]
            /\ \E k \in 0..2 : 2 * block_sz > func_maxthreads[k])
    /\ [][pc # "geometry" => block_sz' = block_sz]_vars

\* a step or merge kernel ran with a block size that is below a maximum
\* which is not itself a power of two
C29_Witness ==
    /\ Len(launches) >= 2
    /\ block_sz = 2
    /\ func_maxthreads[0] = 3
    /\ func_maxthreads[1] = 2


(***************************************************************************)
(* gpusort_main is device code that runs without waiting on anything but   *)
(* the kernels it launched, each of which is finite: a step of it that can *)
(* be taken is taken.                                                      *)
(***************************************************************************)
SpecSortFair == SpecSort /\ WF_vars(SortNext)

FixupLaunches == {k \in DOMAIN launches : launches[k][1] = "fixup"}

\* the outer loop runs a pass exactly while i < nhalf, and is left with
\* twice the loop variable above nitems
LoopEndsAtNhalf ==
    /\ [](pc \in {"step", "merge"} => loop_i < nhalf)
    /\ [](pc = "fixup" => 2 * loop_i > nitems)

\* gpusort_main ends, and a run without a failure launched the fixup once
MainTerminates ==
    /\ <>(pc = "done")
    /\ []((pc = "done" /\ kcxt_e = StromError_Success) =>
             Cardinality(FixupLaunches) = 1)
    /\ [](Cardinality(FixupLaunches) <= 1)

(***************************************************************************)
(* C30: for every item count N >= 1 and every power-of-two block size      *)
(* gpusort_main terminates; a pass of the outer loop is run only while the *)
(* sorted run size, twice the loop variable, is below N; and when no       *)
(* launch fails the pointer fixup is launched exactly once.                *)
(***************************************************************************)
C30_Terminates ==
    /\ MainTerminates
    /\ [](pc \in {"step", "merge"} => 2 * loop_i < nitems)


(***************************************************************************)
(* C39: a call of pgstrom_data_store_insert_block that took the pin and    *)
(* the shared lock of the page has given up each of them exactly once when *)
(* it returns, with -1 as well as with the number of tuples, and between   *)
(* calls no page is locked or pinned.                                      *)
(***************************************************************************)
C39_ReleasedOnce ==
    /\ [][(op' = "insert_block" /\ spc # "idle" /\ spc' = "idle") =>
            /\ buf'.unlocks = 1
            /\ buf'.unpins = 1
            /\ buf'.pins = 0
            /\ ~ buf'.locked]_vars
    /\ [](spc = "idle" => (buf.pins = 0 /\ ~ buf.locked))
    /\ [](buf.unlocks <= 1 /\ buf.unpins <= 1)

\* a call returned -1 after it had locked the page
C39_Witness ==
    /\ spc = "idle"
    /\ op = "insert_block"
    /\ ret = -1
    /\ buf.unlocks = 1
    /\ buf.unpins = 1


(***************************************************************************)
(* C35: on a row chunk between calls, kern_fetch_data_store of every index *)
(* below nitems whose item pgstrom_data_store_insert_block loaded yields   *)
(* the length, the identity and the payload bytes of that item, whatever   *)
(* was loaded after it; and the byte ranges                                *)
(* [offset, offset + item header + row length) of the stored items are     *)
(* pairwise disjoint.                                                      *)
(***************************************************************************)
C35_BlockRoundTrip ==
    (spc = "idle" /\ kds.format = KDS_FORMAT_ROW) =>
        /\ \A i \in 0..(kds.nitems - 1) :
              hist[i + 1].by = "block" =>
                 LET r == kern_fetch_data_store(row, kds, mem, i)
                 IN  r.ret = "true" /\ FetchedTuple(r.row, mem) = hist[i + 1].t
        /\ \A i, j \in 0..(kds.nitems - 1) :
              (i < j /\ "block" \in {hist[i + 1].by, hist[j + 1].by}) =>
                 LET a == LoadTupIndex(mem, kds, i)
                     b == LoadTupIndex(mem, kds, j)
                 IN  \/ a + OffsetofHtup + hist[i + 1].t.t_len <= b
                     \/ b + OffsetofHtup + hist[j + 1].t.t_len <= a

(***************************************************************************)
(* C36: every byte that pgstrom_data_store_insert_block writes for an item *)
(* (row length, row identity, payload) lies at or behind the end of the    *)
(* index array and before the end of the chunk.                            *)
(***************************************************************************)
C36_BlockBytesInside ==
    [][(spc = "ib_scan" /\ hist' # hist) =>
          LET tup_item == kds'.length - kds'.usage
              t == hist'[Len(hist')].t
          IN  /\ tup_item >= TupIndexOffset(kds, kds.nitems + ib'.ntup)
              /\ tup_item + OffsetofHtup + t.t_len <= kds.length]_vars


\* the result entries below kresults->nitems that lie in the array
ProjEntries == {p \in DOMAIN kresults.results : p < kresults.nitems}

(***************************************************************************)
(* C34: when the blocks of the run have returned and each of them obtained *)
(* space (no status was raised), the result entries [0, nitems) are the    *)
(* indices of the slot rows that were loaded, each once and each below     *)
(* kds_slot->nitems; and a thread that holds no row stores no result entry *)
(* outside the range its block reserved.                                   *)
(***************************************************************************)
C34_ResultEntries ==
    /\ (ProjRunOver /\ gkerror = StromError_Success) =>
          /\ {kresults.results[p] : p \in ProjEntries} = {r[1] : r \in slot_rows}
          /\ \A p, q \in ProjEntries :
                p # q => kresults.results[p] # kresults.results[q]
          /\ \A p \in ProjEntries : kresults.results[p] < kds_slot.nitems
    /\ \A g \in ProjGroups :
          groups[g].pc = "copy" =>
             \A t \in ProjAlive(groups[g]) :
                ~ groups[g].tupitem[t] =>
                    groups[g].nrows_ofs[t] < groups[g].nrows_sum


(***************************************************************************)
(* C37: the threads of one block take the same decision at each            *)
(* out-of-space test, whatever the other blocks do to kds_slot->nitems and *)
(* kds_slot->usage meanwhile: no thread of a block goes on to the barrier  *)
(* of line 152 after another thread of the block left at the test of       *)
(* lines 138-144.                                                          *)
(***************************************************************************)
C37_UniformDecision ==
    prun.n > 0 =>
        \A g \in ProjGroups :
            \A t1, t2 \in ProjThreads :
                ~ (groups[g].quick[t1] = "pass" /\ groups[g].quick[t2] = "bail")


(***************************************************************************)
(* C33: a slot chunk chained to a file-mapped toast chunk is mapped from   *)
(* the toast chunk's file at an offset that is a multiple of BLCKSZ and    *)
(* not below the toast chunk's length; the file reaches at least to the    *)
(* offset plus the slot chunk's length; and the chunk records the offset   *)
(* and the length of the region that was mapped.                           *)
(***************************************************************************)
C33_SlotRegion ==
    \A id \in RegLive :
        LET p == reg.pds[id]
        IN  (p.ktoast # 0 /\ p.kds = "mapped") =>
               LET t == reg.pds[p.ktoast]
               IN  /\ p.kds_fname = t.kds_fname
                   /\ p.mapoff % BLCKSZ = 0
                   /\ p.mapoff >= t.mapoff + t.kds_length
                   /\ reg.files[p.kds_fname] >= p.mapoff + p.kds_length
                   /\ p.kds_offset = p.mapoff
                   /\ p.maplen = p.kds_length

(***************************************************************************)
(* C38: over any sequence of creations and releases every backing file is  *)
(* unlinked at most once, and only while it exists, and every mapped       *)
(* region is unmapped at most once; the release of a slot chunk that       *)
(* shares the file of its toast chunk does not unlink the file the         *)
(* cascaded release already unlinked.                                      *)
(***************************************************************************)
C38_UnlinkOnce ==
    /\ \A k \in DOMAIN reg.unlinks : reg.unlinks[k][2]
    /\ \A k, l \in DOMAIN reg.unlinks :
          k # l => reg.unlinks[k][1] # reg.unlinks[l][1]
    /\ \A k, l \in DOMAIN reg.unmaps : k # l => reg.unmaps[k] # reg.unmaps[l]


(***************************************************************************)
(* C32: in the buffer pgstrom_create_kern_parambuf returns, every non-zero *)
(* poffset[] entry is a multiple of STROMALIGN_LEN, is not below the size  *)
(* of the header with its offset array and is below length; the non-zero   *)
(* entries grow strictly with the parameter index; and length is aligned   *)
(* and is the number of bytes written.                                     *)
(***************************************************************************)
C32_OffsetsAligned ==
    ppc = "returned" =>
        /\ \A i \in 1..Len(kpbuf.poffset) :
              kpbuf.poffset[i] # 0 =>
                 /\ kpbuf.poffset[i] % STROMALIGN_LEN = 0
                 /\ kpbuf.poffset[i] >= KernParambufHead(kpbuf.nparams)
                 /\ kpbuf.poffset[i] < kpbuf.length
        /\ \A i, j \in 1..Len(kpbuf.poffset) :
              (i < j /\ kpbuf.poffset[i] # 0 /\ kpbuf.poffset[j] # 0) =>
                 kpbuf.poffset[i] < kpbuf.poffset[j]
        /\ kpbuf.length % STROMALIGN_LEN = 0
        /\ kpbuf.length = Len(kpbuf.data)

\* two stored entries, with padding between the bytes of the first and the
\* second
C32_Witness ==
    /\ ppc = "returned"
    /\ Len(used_params) = 2
    /\ kpbuf.poffset[1] # 0
    /\ kpbuf.poffset[2] # 0
    /\ kpbuf.data[kpbuf.poffset[2]] = PaddingByte


(***************************************************************************)
(* largest_workgroup_size (gpu_device.c)                                   *)
(***************************************************************************)
\* the sizes of the model are far below 2^31: the cl_int variables of the
\* function hold them as they are
\* lines 410-412 alone, the division without the cut to whole warps
WgReducedUnrounded(maxShmemSize, staticShmemSize, per_block, per_thread, warpSize) ==
    (maxShmemSize - staticShmemSize - per_block) \div per_thread

\* lines 410-413: maxBlockSize when the kernel's own maximum does not fit
WgReduced(maxShmemSize, staticShmemSize, per_block, per_thread, warpSize) ==
    (((maxShmemSize - staticShmemSize - per_block) \div per_thread)
        \div warpSize) * warpSize

\* line 424, "(size_t)maxBlockSize * (size_t)INT_MAX < nitems", as a
\* division so that the product is not formed
WgTooManyItems(maxBlockSize, n) ==
    n > 0 /\ maxBlockSize <= (n - 1) \div INT_MAX

\* lines 399-429, a being the arguments and the four attributes read
largest_workgroup_size(a) ==
    LET shmemSizeTotal ==
            a.staticShmemSize + a.dynamic_shmem_per_block +
            (a.dynamic_shmem_per_thread * a.maxBlockSize)
        fits == ~ (shmemSizeTotal > a.maxShmemSize)
        warp_fits ==
            /\ a.dynamic_shmem_per_thread > 0
            /\ a.staticShmemSize + a.dynamic_shmem_per_block +
                  (a.dynamic_shmem_per_thread * a.warpSize) <= a.maxShmemSize
        maxBlockSize ==
            IF fits THEN a.maxBlockSize
            ELSE WgReduced(a.maxShmemSize, a.staticShmemSize,
                           a.dynamic_shmem_per_block,
                           a.dynamic_shmem_per_thread, a.warpSize)
    IN  IF ~ fits /\ ~ warp_fits
        THEN [pc |-> "error", msg |-> "too large fixed amount of shared memory",
              block_size |-> 0, grid_size |-> 0]
        ELSE IF WgTooManyItems(maxBlockSize, a.nitems)
        THEN [pc |-> "error", msg |-> "to large nitems",
              block_size |-> 0, grid_size |-> 0]
        ELSE [pc |-> "returned", msg |-> "",
              block_size |-> maxBlockSize,
              grid_size |-> ((a.nitems + maxBlockSize) - 1) \div maxBlockSize]

\* the device and the kernel function: a warp size, the function's limit of
\* threads per block, which lets at least one warp run, the shared memory
\* the function declares and the shared memory of a block
WgAttributes ==
    [warpSize : {2, 4},
     maxBlockSize : 2..MaxWgThreads,
     staticShmemSize : {0, 2},
     maxShmemSize : {MaxWgShmem - 4, MaxWgShmem}]

WgInit ==
    /\ \E at \in WgAttributes, n \in {0, 1, MaxWgItems},
          per_block \in {0, 3, MaxWgShmem}, per_thread \in 0..3 :
        /\ at.maxBlockSize >= at.warpSize
        /\ wg = [pc |-> "entry",
                 arg |-> [warpSize |-> at.warpSize,
                          maxBlockSize |-> at.maxBlockSize,
                          staticShmemSize |-> at.staticShmemSize,
                          maxShmemSize |-> at.maxShmemSize,
                          nitems |-> n,
                          dynamic_shmem_per_block |-> per_block,
                          dynamic_shmem_per_thread |-> per_thread],
                 msg |-> "", block_size |-> 0, grid_size |-> 0]
    /\ SortParked
    /\ StoreParked
    /\ ParamParked
    /\ ProjParked
    /\ StepParked
    /\ RegParked
    /\ FixParked

\* lines 372-397: one of the four attribute queries fails
WgQueryFail ==
    /\ wg.pc = "entry"
    /\ \E m \in {"failed on cuFuncGetAttribute",
                 "failed on cuDeviceGetAttribute"} :
          wg' = [wg EXCEPT !.pc = "error", !.msg = m]
    /\ UNCHANGED wgRest

\* lines 399-429
WgCompute ==
    /\ wg.pc = "entry"
    /\ LET r == largest_workgroup_size(wg.arg)
       IN  wg' = [wg EXCEPT !.pc = r.pc, !.msg = r.msg,
                            !.block_size = r.block_size,
                            !.grid_size = r.grid_size]
    /\ UNCHANGED wgRest

WgNext ==
    \/ WgQueryFail
    \/ WgCompute

SpecWg == WgInit /\ [][WgNext]_vars

\* shared memory a block of b threads takes
WgShmem(a, b) ==
    a.staticShmemSize + a.dynamic_shmem_per_block +
    (a.dynamic_shmem_per_thread * b)

FixRows == 0 .. (MaxFixRows - 1)
FixColumns == 0 .. 1
FixWorkers == 0 .. MaxFixRows

\* the value adds the host address without taking the device address off
FixupValueNoBase(value, dev_hostptr, hostptr) == value + hostptr

\* lines 461-463: value - &kds_slot->hostptr + kds_slot->hostptr
FixupValue(value, dev_hostptr, hostptr) == (value - dev_hostptr) + hostptr

\* an injective result array over the slot rows: the sort permutes the
\* entries that the projection stored, one per loaded row
FixResults ==
    UNION { { q \in [0 .. (n - 1) -> FixRows] :
                \A x, y \in 0 .. (n - 1) : x # y => q[x] # q[y] } :
            n \in 0 .. MaxFixRows }

\* the value of column c in slot row r as the projection left it: a datum
\* for a by-value column, a device address in the chunk otherwise, and 0
\* for a null
FixStored(dev_base, attbyval, isnull, r, c) ==
    IF isnull[r][c] THEN 0
    ELSE IF attbyval[c] THEN 100 + (Cardinality(FixColumns) * r) + c
    ELSE dev_base + 64 + (8 * ((Cardinality(FixColumns) * r) + c))

FixInit ==
    /\ \E attbyval \in [FixColumns -> BOOLEAN],
          nullcol \in [FixRows -> FixColumns \cup {-1}],
          res \in FixResults, hostptr_ofs \in {0, 8} :
        LET dev_base == 4096
            host_base == 8192
            isnull == [r \in FixRows |-> [c \in FixColumns |-> nullcol[r] = c]]
            vals == [r \in FixRows |-> [c \in FixColumns |->
                        FixStored(dev_base, attbyval, isnull, r, c)]]
        IN  fix = [dev_base    |-> dev_base,
                   host_base   |-> host_base,
                   hostptr_ofs |-> hostptr_ofs,
                   hostptr     |-> host_base + hostptr_ofs,
                   attbyval    |-> attbyval,
                   isnull      |-> isnull,
                   orig        |-> vals,
                   values      |-> vals,
                   writes      |-> [r \in FixRows |-> [c \in FixColumns |-> 0]],
                   nitems      |-> Cardinality(DOMAIN res),
                   results     |-> res,
                   done        |-> {}]
    /\ SortParked
    /\ StoreParked
    /\ ParamParked
    /\ ProjParked
    /\ StepParked
    /\ RegParked
    /\ WgParked

\* lines 453-464: the loop over the columns of slot row kds_index
FixupRow(f, kds_index) ==
    LET touched == {c \in FixColumns :
                       ~ f.attbyval[c] /\ ~ f.isnull[kds_index][c]}
    IN  [f EXCEPT
           !.values[kds_index] =
               [c \in FixColumns |->
                   IF c \in touched
                   THEN FixupValue(f.values[kds_index][c],
                                   f.dev_base + f.hostptr_ofs, f.hostptr)
                   ELSE f.values[kds_index][c]],
           !.writes[kds_index] =
               [c \in FixColumns |->
                   IF c \in touched THEN f.writes[kds_index][c] + 1
                   ELSE f.writes[kds_index][c]]]

\* lines 445-465: the worker with global id gid
FixWorker(gid) ==
    /\ gid \notin fix.done
    /\ fix' = [(IF gid < fix.nitems THEN FixupRow(fix, fix.results[gid])
                ELSE fix) EXCEPT !.done = @ \cup {gid}]
    /\ UNCHANGED fixRest

FixNext == \E gid \in FixWorkers : FixWorker(gid)

SpecFixup == FixInit /\ [][FixNext]_vars

\* the slot rows that result entries [0, nitems) refer to
FixReferenced == {fix.results[g] : g \in 0 .. (fix.nitems - 1)}

====
